---- MODULE Spec2Model ----
(***************************************************************************)
(* heliospice: the SPICE kernel cache manager (kernel_manager.py) and the  *)
(* ephemeris query layer (ephemeris.py) as a state machine.                *)
(*                                                                         *)
(* Client threads call the public operations.  Every operation is a Python *)
(* function; a thread runs it as a stack of frames, one step per statement *)
(* that reads or writes shared state, so the interleavings of threads are  *)
(* the interleavings of these statements.  A raised exception unwinds the  *)
(* whole stack (no function of the kernel manager catches what its callees *)
(* raise), leaving every "with self._lock" block on the way.               *)
(***************************************************************************)
EXTENDS Integers, Sequences, FiniteSets, TLC

(***************************************************************************)
(* Bounds of the model.                                                    *)
(***************************************************************************)
\* operations the client threads start in one behaviour
MaxOps == 2

\* calls a single caller starts in one behaviour
MaxSeqOps == 3

\* calls the caller of ensure_segmented_kernels starts in one behaviour
MaxSegOps == 3

\* the last day of the calendar of the manifests and the requested ranges
MaxDate == 3

\* operations the client threads of the query layer start in one behaviour
MaxQueryOps == 2

\* calls into the cache bookkeeping two threads start in one behaviour
MaxCacheOps == 2

\* calls of download_kernel and load_kernel two threads start in one behaviour
MaxDownloadOps == 4

\* calls of the entry points that may download, started in one behaviour
MaxEntryOps == 2

\* calls a downloader and a reader start in one behaviour
MaxStallOps == 3
MaxLockOps == 3
MaxFlagOps == 2
MaxRaceOps == 2
MaxEvictOps == 2

\* the length of the names passed to resolve_mission
MaxNameLen == 4

\* calls of delete_mission_cache and load_kernel a caller starts in one
\* behaviour
MaxMissionCacheOps == 2

\* the longest time span of a grid, in units of 25,000 seconds
MaxSpanUnits == 9

\* tool calls and evictions started in one behaviour
MaxToolOps == 2

\* calls of check_remote_kernels a caller starts in one behaviour
MaxRemoteOps == 2

\* calls into the cache bookkeeping a single caller starts in one behaviour
MaxCacheSeqOps == 3

\* the longest time span of a trajectory request, in steps
MaxSpan == 1

Threads == {"t1", "t2"}
NoThread == "none"

(***************************************************************************)
(* missions.py: the registry tables, restricted to the missions modelled.  *)
(***************************************************************************)
\* ensure_generic_kernels: ordered_files, LSK -> PCK -> GM -> SPK
ordered_files == <<"naif0012.tls", "pck00011.tpc", "gm_de440.tpc", "de440s.bsp">>

\* GENERIC_KERNELS: filename -> url; only the key set matters here
GENERIC_KERNELS == {"naif0012.tls", "pck00011.tpc", "de440s.bsp", "gm_de440.tpc"}

\* MISSION_KERNELS: mission key -> its files, in the dict's insertion order
MISSION_KERNELS ==
    [m \in {"HELIOS_1"} |->
        <<"100528R_helios1_74345_81272.bsp", "160707AP_helios1_81272_86074.bsp">>]

\* SEGMENTED_MISSIONS: mission key -> manifest; only the key set matters here
SEGMENTED_MISSIONS == {"CASSINI"}

\* MISSION_NAIF_IDS: name -> NAIF id, for the bodies modelled
MISSION_NAIF_IDS ==
    [k \in {"HELIOS_1", "ACE", "MMS1", "CASSINI", "SUN"} |->
        CASE k = "HELIOS_1" -> -301
          [] k = "ACE" -> -92
          [] k = "MMS1" -> -189
          [] k = "CASSINI" -> -82
          [] k = "SUN" -> 10]

\* a segment of a manifest: file, start, stop (the dates as day numbers)
Segment(file, start, stop) == [file |-> file, start |-> start, stop |-> stop]

\* a manifest of two segments that share an edge day
SAMPLE_MANIFEST == <<Segment("seg_a.bsp", 1, 2), Segment("seg_b.bsp", 2, 3)>>

\* mission keys a caller may pass: fixed-kernel, segmented, and one without kernels
MissionKeys == DOMAIN MISSION_KERNELS \cup SEGMENTED_MISSIONS \cup {"ACE"}

SeqToSet(s) == {s[i] : i \in 1..Len(s)}

MissionFiles == UNION {SeqToSet(MISSION_KERNELS[m]) : m \in DOMAIN MISSION_KERNELS}

\* the files of the generic set and of the fixed kernel maps
FixedFiles == GENERIC_KERNELS \cup MissionFiles

\* the files a segment manifest may name
SegmentFiles == {"seg_a.bsp", "seg_b.bsp"}

\* every kernel file name the cache directory can hold in this model
Files == FixedFiles \cup SegmentFiles

\* the size of each kernel file in bytes, as the archive serves it
FileSize ==
    [f \in Files |->
        CASE f \in GENERIC_KERNELS -> 5243
          [] f \in MissionFiles -> 10486
          [] OTHER -> 2097152]

\* local_path.with_suffix(".tmp"): the extension is replaced
with_suffix_tmp ==
    [f \in Files |->
        CASE f = "naif0012.tls" -> "naif0012.tmp"
          [] f = "pck00011.tpc" -> "pck00011.tmp"
          [] f = "gm_de440.tpc" -> "gm_de440.tmp"
          [] f = "de440s.bsp" -> "de440s.tmp"
          [] f = "100528R_helios1_74345_81272.bsp" -> "100528R_helios1_74345_81272.tmp"
          [] f = "160707AP_helios1_81272_86074.bsp" -> "160707AP_helios1_81272_86074.tmp"
          [] f = "seg_a.bsp" -> "seg_a.tmp"
          [] f = "seg_b.bsp" -> "seg_b.tmp"]

\* the temporary names downloads write to
TmpNames == {with_suffix_tmp[f] : f \in Files}

\* Path.suffix of every name the cache directory may hold
suffix ==
    [n \in Files \cup TmpNames |->
        CASE n \in TmpNames -> ".tmp"
          [] n = "naif0012.tls" -> ".tls"
          [] n \in {"pck00011.tpc", "gm_de440.tpc"} -> ".tpc"
          [] OTHER -> ".bsp"]

\* f.name.endswith(".tmp")
endswith_tmp(n) == suffix[n] = ".tmp"

\* iter_content(chunk_size=1024 * 1024): the bytes of one chunk
chunk_size == 1048576

\* the order in which listings of the directory come (the names sorted)
DirOrder ==
    <<"100528R_helios1_74345_81272.bsp", "100528R_helios1_74345_81272.tmp",
      "160707AP_helios1_81272_86074.bsp", "160707AP_helios1_81272_86074.tmp",
      "de440s.bsp", "de440s.tmp", "gm_de440.tmp", "gm_de440.tpc",
      "naif0012.tls", "naif0012.tmp", "pck00011.tmp", "pck00011.tpc",
      "seg_a.bsp", "seg_a.tmp", "seg_b.bsp", "seg_b.tmp">>

\* the names S as a list
ListOf(S) == SelectSeq(DirOrder, LAMBDA n : n \in S)

(***************************************************************************)
(* Paths.  A cached file's canonical path is kernel_dir/<name>, written    *)
(* here as the bare name; a caller of load_kernel may spell the same file  *)
(* differently, and Path.resolve() maps every spelling to the canonical    *)
(* one.                                                                    *)
(***************************************************************************)
AliasPaths == [p \in {"./naif0012.tls", "sub/../de440s.bsp"} |->
                 IF p = "./naif0012.tls" THEN "naif0012.tls" ELSE "de440s.bsp"]

Paths == Files \cup DOMAIN AliasPaths

\* str(path.resolve())
Resolve(p) == IF p \in DOMAIN AliasPaths THEN AliasPaths[p] ELSE p

(***************************************************************************)
(* State.                                                                  *)
(***************************************************************************)
VARIABLES
    kernel_dir,               \* the cache directory: names of its non-empty kernel files
    empty_files,              \*   names of its zero-size files
    tmp_dir,                  \*   names of its .tmp files (downloads in progress)
    chunks,                   \*   per name: the chunks of the content its file holds
    fd,                       \* per thread: the file its download has open for writing
    manifest,                 \* the bundled segment manifest of the segmented mission
    loaded_kernels,           \* KernelManager._loaded_kernels: canonical paths
    generic_loaded,           \* KernelManager._generic_loaded
    mission_kernels_loaded,   \* KernelManager._mission_kernels_loaded
    segmented_files_loaded,   \* KernelManager._segmented_files_loaded
    pool,                     \* the SPICE kernel pool: how often each path is furnished
    lock_owner,               \* KernelManager._lock (an RLock): the owning thread
    lock_depth,               \*   and its recursion count
    stack,                    \* per thread: the frames of the call in progress
    result,                   \* per thread: its last call and how it ended
    returned,                 \*   and the value it returned
    callers,                  \* the threads that call into the engine
    ops,                      \* calls the threads may still start
    furnsh_calls,             \* per path: successful furnsh calls since it was last evicted
    fetched,                  \* per thread: files its last call passed to download_kernel
    admitted,                 \* per thread: paths its last call furnished, in order
    ensured                   \* per thread: paths load_kernel returned for in its last call

vars == <<kernel_dir, empty_files, tmp_dir, chunks, fd, manifest, loaded_kernels, generic_loaded,
          mission_kernels_loaded, segmented_files_loaded, pool, lock_owner, lock_depth,
          stack, result, returned, callers, ops, furnsh_calls, fetched, admitted, ensured>>

\* what no operation changes: who calls, and the packaged manifest
fixed == <<callers, manifest>>

\* what only download, delete and purge change beside kernel_dir
scraps == <<empty_files, tmp_dir, chunks, fd>>

\* Python's None
None == "None"

tracking == <<loaded_kernels, generic_loaded, mission_kernels_loaded,
              segmented_files_loaded>>

\* the files of the manifest's segments
ManifestFiles == {manifest[i].file : i \in 1..Len(manifest)}

\* _build_file_to_mission_map: generic files first, then the fixed kernel maps,
\* then the segments of the manifests (a later entry overwrites an earlier
\* one); "UNKNOWN" stands for no entry
FileToMission(f) ==
    IF f \in ManifestFiles
    THEN CHOOSE m \in SEGMENTED_MISSIONS : TRUE
    ELSE IF \E m \in DOMAIN MISSION_KERNELS : f \in SeqToSet(MISSION_KERNELS[m])
    THEN CHOOSE m \in DOMAIN MISSION_KERNELS : f \in SeqToSet(MISSION_KERNELS[m])
    ELSE IF f \in GENERIC_KERNELS THEN "GENERIC" ELSE "UNKNOWN"

\* self._kernel_dir.iterdir(): the names in the cache directory
Iterdir == kernel_dir \cup empty_files \cup tmp_dir

\* local_path.exists()
OnDisk(f) == f \in Iterdir

\* f.stat().st_size; a temporary file holds the chunks written so far
StatSize(f) ==
    IF f \in kernel_dir THEN FileSize[f]
    ELSE IF f \in tmp_dir THEN chunk_size
    ELSE 0

\* round(bytes / (1024 * 1024), 2), in hundredths of a megabyte
RoundMb(bytes) == (bytes * 100 + 524288) \div 1048576

\* the chunks iter_content(chunk_size) yields for a file
Chunks(f) == (FileSize[f] + chunk_size - 1) \div chunk_size

\* the chunks of a file's whole content
AllChunks(f) == 1..Chunks(f)

\* no file open for writing; and where an open file is no longer linked
Closed == [path |-> "", pos |-> 0]
Deleted == "(deleted)"

\* the files at these names are unlinked: the names go, and a file that is
\* still open stays with its writer only
Unlinks(names) ==
    /\ chunks' = [n \in DOMAIN chunks |-> IF n \in names THEN {} ELSE chunks[n]]
    /\ fd' = [u \in Threads |->
                IF fd[u].path \in names THEN [fd[u] EXCEPT !.path = Deleted] ELSE fd[u]]

\* what result holds of a thread that has made no call yet: the operation, its
\* argument, how it ended
NoCall == [op |-> "", arg |-> "", status |-> "none"]

\* what a thread's last call has done so far
logs == <<fetched, admitted, ensured>>

\* a frame: the function, the statement it is at, its argument
Frame(fn, pc, arg) == [fn |-> fn, pc |-> pc, arg |-> arg]

\* a frame of delete_cached_files: the names still to visit, deleted, errors,
\* freed, the size of the file at hand; before is the directory as the loop
\* found it, and zero its zero-size files
DeleteFrame(names) ==
    [fn |-> "delete_cached_files", pc |-> "acquire", arg |-> names, todo |-> names,
     done |-> <<>>, errs |-> <<>>, freed |-> 0, size |-> 0, before |-> {},
     zero |-> {}]

Idle(t) == stack[t] = <<>>
Top(t) == stack[t][Len(stack[t])]
Below(t) == SubSeq(stack[t], 1, Len(stack[t]) - 1)
At(t, fn, pc) == ~Idle(t) /\ Top(t).fn = fn /\ Top(t).pc = pc


\* the top frame after an update, with further frames called on top of it (the
\* last of calls runs first, and each returns to the one before it)
Continue(t, frame, calls) ==
    stack' = [stack EXCEPT ![t] = Below(t) \o <<frame>> \o calls]

Goto(t, pc) == Continue(t, [Top(t) EXCEPT !.pc = pc], <<>>)

\* the end of a call
Ends(t, how) == result' = [result EXCEPT ![t].status = how]

\* the top frame returns; the call is over when it was the only frame
Return(t) ==
    /\ stack' = [stack EXCEPT ![t] = Below(t)]
    /\ IF Len(stack[t]) = 1 THEN Ends(t, "ok") ELSE UNCHANGED result

(***************************************************************************)
(* threading.RLock                                                         *)
(***************************************************************************)
CanAcquire(t) == lock_owner \in {NoThread, t}

Acquire(t) ==
    /\ CanAcquire(t)
    /\ lock_owner' = t
    /\ lock_depth' = lock_depth + 1

Release(t) ==
    IF lock_owner = t
    THEN /\ lock_depth' = lock_depth - 1
         /\ lock_owner' = IF lock_depth = 1 THEN NoThread ELSE t
    ELSE UNCHANGED <<lock_owner, lock_depth>>

\* an exception, were the lock taken by acquire() and released by a release()
\* at the end of the block alone: the exception leaves the lock held
RaiseKeepsLock(t, err) ==
    /\ stack' = [stack EXCEPT ![t] = <<>>]
    /\ Ends(t, err)
    /\ UNCHANGED <<lock_owner, lock_depth>>

\* an exception leaves every frame of the thread, and with them every
\* "with self._lock" block the thread is in
Raise(t, err) ==
    /\ stack' = [stack EXCEPT ![t] = <<>>]
    /\ Ends(t, err)
    /\ lock_owner' = IF lock_owner = t THEN NoThread ELSE lock_owner
    /\ lock_depth' = IF lock_owner = t THEN 0 ELSE lock_depth

(***************************************************************************)
(* KernelManager.download_kernel(url, filename)                            *)
(***************************************************************************)
\* the test, were it local_path.exists() alone
DlCheckExists(t) ==
    /\ At(t, "download_kernel", "check")
    /\ fetched' = [fetched EXCEPT ![t] = Append(@, Top(t).arg)]
    /\ IF OnDisk(Top(t).arg)
       THEN Return(t)
       ELSE Goto(t, "fetch") /\ UNCHANGED result
    /\ UNCHANGED <<admitted, ensured>>
    /\ UNCHANGED <<kernel_dir, tracking, pool, lock_owner, lock_depth, fixed, returned, scraps, ops,
                   furnsh_calls>>

\* download_kernel, were it to take the lock for the request and the writing
DlCheckLocked(t) ==
    /\ At(t, "download_kernel", "check")
    /\ fetched' = [fetched EXCEPT ![t] = Append(@, Top(t).arg)]
    /\ IF Top(t).arg \in kernel_dir
       THEN Return(t) /\ UNCHANGED <<lock_owner, lock_depth>>
       ELSE Acquire(t) /\ Goto(t, "fetch") /\ UNCHANGED result
    /\ UNCHANGED <<admitted, ensured>>
    /\ UNCHANGED <<kernel_dir, tracking, pool, fixed, returned, scraps, ops, furnsh_calls>>

\* local_path.exists() and st_size > 0: the cached file is returned
DlCheck(t) ==
    /\ At(t, "download_kernel", "check")
    /\ fetched' = [fetched EXCEPT ![t] = Append(@, Top(t).arg)]
    /\ IF Top(t).arg \in kernel_dir
       THEN Return(t)
       ELSE Goto(t, "fetch") /\ UNCHANGED result
    /\ UNCHANGED <<admitted, ensured>>
    /\ UNCHANGED <<kernel_dir, tracking, pool, lock_owner, lock_depth, fixed, returned, scraps, ops,
                   furnsh_calls>>

\* requests.get + raise_for_status: a failure is raised as RuntimeError;
\* otherwise open(tmp_path, "wb") creates the temporary file
DlFetch(t) ==
    /\ At(t, "download_kernel", "fetch")
    /\ \/ /\ Goto(t, "rename")
          /\ tmp_dir' = tmp_dir \cup {with_suffix_tmp[Top(t).arg]}
          /\ UNCHANGED <<result, lock_owner, lock_depth>>
       \/ Raise(t, "RuntimeError") /\ UNCHANGED tmp_dir
    /\ UNCHANGED <<kernel_dir, empty_files, chunks, fd, tracking, pool, fixed, returned, ops,
                   furnsh_calls, logs>>

\* the step, were the except branch to leave the temporary file
DlRenameKeepsTmp(t) ==
    /\ At(t, "download_kernel", "rename")
    /\ \/ /\ with_suffix_tmp[Top(t).arg] \in tmp_dir
          /\ tmp_dir' = tmp_dir \ {with_suffix_tmp[Top(t).arg]}
          /\ kernel_dir' = kernel_dir \cup {Top(t).arg}
          /\ empty_files' = empty_files \ {Top(t).arg}
          /\ chunks' = [chunks EXCEPT ![Top(t).arg] = AllChunks(Top(t).arg)]
          /\ Return(t)
          /\ UNCHANGED <<lock_owner, lock_depth>>
       \/ /\ Raise(t, "OSError")
          /\ UNCHANGED <<kernel_dir, empty_files, tmp_dir, chunks>>
    /\ UNCHANGED <<fd, tracking, pool, fixed, returned, ops, furnsh_calls, logs>>

\* the chunks are written and tmp_path.rename(local_path) replaces the final
\* path; or writing or renaming raises (renaming does when the temporary file
\* is gone): tmp_path.unlink(missing_ok=True) and the exception is raised again
DlRename(t) ==
    /\ At(t, "download_kernel", "rename")
    /\ tmp_dir' = tmp_dir \ {with_suffix_tmp[Top(t).arg]}
    /\ \/ /\ with_suffix_tmp[Top(t).arg] \in tmp_dir
          /\ kernel_dir' = kernel_dir \cup {Top(t).arg}
          /\ empty_files' = empty_files \ {Top(t).arg}
          /\ chunks' = [chunks EXCEPT ![Top(t).arg] = AllChunks(Top(t).arg)]
          /\ Return(t)
          /\ UNCHANGED <<lock_owner, lock_depth>>
       \/ /\ Raise(t, "OSError")
          /\ UNCHANGED <<kernel_dir, empty_files, chunks>>
    /\ UNCHANGED <<fd, tracking, pool, fixed, returned, ops, furnsh_calls, logs>>

(***************************************************************************)
(* download_kernel statement by statement: the request, open(tmp_path,     *)
(* "wb"), one f.write(chunk) after the other, and the rename.  The steps   *)
(* DlFetch and DlRename above take the open together with the request and  *)
(* the whole write loop together with the rename; SpecDownload takes them  *)
(* apart, so that a second writer of the same temporary path may come      *)
(* between them.                                                           *)
(***************************************************************************)
\* except Exception: tmp_path.unlink(missing_ok=True); raise.  The with block
\* has closed the thread's file; another thread's open file at that path
\* loses its name
DlExcept(t, err) ==
    LET tmp == with_suffix_tmp[Top(t).arg] IN
    /\ tmp_dir' = tmp_dir \ {tmp}
    /\ chunks' = [chunks EXCEPT ![tmp] = {}]
    /\ fd' = [u \in Threads |->
                IF u = t THEN Closed
                ELSE IF fd[u].path = tmp THEN [fd[u] EXCEPT !.path = Deleted]
                ELSE fd[u]]
    /\ Raise(t, err)
    /\ UNCHANGED <<kernel_dir, empty_files>>

\* requests.get(url, stream=True) and raise_for_status: a failure is raised
\* as RuntimeError
DlGet(t) ==
    /\ At(t, "download_kernel", "fetch")
    /\ \/ Goto(t, "open") /\ UNCHANGED <<result, lock_owner, lock_depth>>
       \/ Raise(t, "RuntimeError")
    /\ UNCHANGED <<kernel_dir, scraps, tracking, pool, fixed, returned, ops, furnsh_calls, logs>>

\* open(tmp_path, "wb") without the truncation of a file that is there
DlOpenAppends(t) ==
    /\ At(t, "download_kernel", "open")
    /\ LET tmp == with_suffix_tmp[Top(t).arg] IN
       \/ /\ tmp_dir' = tmp_dir \cup {tmp}
          /\ fd' = [fd EXCEPT ![t] = [path |-> tmp, pos |-> 1]]
          /\ Goto(t, "write")
          /\ UNCHANGED <<kernel_dir, empty_files, chunks, result, lock_owner, lock_depth>>
       \/ DlExcept(t, "OSError")
    /\ UNCHANGED <<tracking, pool, fixed, returned, ops, furnsh_calls, logs>>

\* open(tmp_path, "wb"): the file at the temporary path is created, or, when
\* it is there (another download of this name has it open), truncated; or the
\* open fails
DlOpen(t) ==
    /\ At(t, "download_kernel", "open")
    /\ LET tmp == with_suffix_tmp[Top(t).arg] IN
       \/ /\ tmp_dir' = tmp_dir \cup {tmp}
          /\ chunks' = [chunks EXCEPT ![tmp] = {}]
          /\ fd' = [fd EXCEPT ![t] = [path |-> tmp, pos |-> 1]]
          /\ Goto(t, "write")
          /\ UNCHANGED <<kernel_dir, empty_files, result, lock_owner, lock_depth>>
       \/ DlExcept(t, "OSError")
    /\ UNCHANGED <<tracking, pool, fixed, returned, ops, furnsh_calls, logs>>

\* f.write(chunk): the chunk goes, at the writer's own offset, into the file
\* the writer has open, under whatever name that file now has; after the last
\* chunk the with block closes the file.  Or the response or the write fails
DlWrite(t) ==
    /\ At(t, "download_kernel", "write")
    /\ LET f == Top(t).arg
           at == fd[t].path
           k == fd[t].pos IN
       \/ /\ chunks' = IF at = Deleted THEN chunks ELSE [chunks EXCEPT ![at] = @ \cup {k}]
          /\ kernel_dir' = IF at \in Files THEN kernel_dir \cup {at} ELSE kernel_dir
          /\ empty_files' = IF at \in Files THEN empty_files \ {at} ELSE empty_files
          /\ IF k = Chunks(f)
             THEN fd' = [fd EXCEPT ![t] = Closed] /\ Goto(t, "replace")
             ELSE fd' = [fd EXCEPT ![t].pos = k + 1] /\ UNCHANGED stack
          /\ UNCHANGED <<tmp_dir, result, lock_owner, lock_depth>>
       \/ DlExcept(t, "OSError")
    /\ UNCHANGED <<tracking, pool, fixed, returned, ops, furnsh_calls, logs>>

\* tmp_path.rename(local_path): the file at the temporary path takes the final
\* name, in place of the file that had it, and the path is returned; when the
\* temporary path is gone the rename raises FileNotFoundError
DlReplace(t) ==
    /\ At(t, "download_kernel", "replace")
    /\ LET f == Top(t).arg
           tmp == with_suffix_tmp[f] IN
       IF tmp \in tmp_dir
       THEN /\ tmp_dir' = tmp_dir \ {tmp}
            /\ chunks' = [chunks EXCEPT ![f] = chunks[tmp], ![tmp] = {}]
            /\ kernel_dir' = IF chunks[tmp] # {} THEN kernel_dir \cup {f} ELSE kernel_dir \ {f}
            /\ empty_files' = IF chunks[tmp] = {} THEN empty_files \cup {f} ELSE empty_files \ {f}
            /\ fd' = [u \in Threads |->
                        IF fd[u].path = tmp THEN [fd[u] EXCEPT !.path = f]
                        ELSE IF fd[u].path = f THEN [fd[u] EXCEPT !.path = Deleted]
                        ELSE fd[u]]
            /\ Return(t)
            /\ UNCHANGED <<lock_owner, lock_depth>>
       ELSE DlExcept(t, "FileNotFoundError")
    /\ UNCHANGED <<tracking, pool, fixed, returned, ops, furnsh_calls, logs>>

(***************************************************************************)
(* KernelManager.load_kernel(path)                                         *)
(***************************************************************************)
\* load_kernel without "if key in self._loaded_kernels: return"
LkEnterNoCheck(t) ==
    /\ At(t, "load_kernel", "acquire")
    /\ Acquire(t)
    /\ Goto(t, "furnsh")
    /\ UNCHANGED <<kernel_dir, tracking, pool, result, fixed, returned, scraps, ops, furnsh_calls, logs>>

\* with self._lock: if key in self._loaded_kernels: return
\* otherwise spice.furnsh(key) is entered
LkEnter(t) ==
    /\ At(t, "load_kernel", "acquire")
    /\ CanAcquire(t)
    /\ LET key == Resolve(Top(t).arg) IN
       IF key \in loaded_kernels
       THEN /\ Return(t)
            /\ ensured' = [ensured EXCEPT ![t] = @ \cup {key}]
            /\ UNCHANGED <<lock_owner, lock_depth>>
       ELSE /\ Acquire(t)
            /\ Goto(t, "furnsh")
            /\ UNCHANGED <<result, ensured>>
    /\ UNCHANGED <<kernel_dir, tracking, pool, fixed, returned, scraps, ops, furnsh_calls, fetched,
                   admitted>>

\* spice.furnsh(key) ends: it raises when the file is missing or is no kernel;
\* otherwise self._loaded_kernels.add(key), and the with block ends
LkFurnsh(t) ==
    /\ At(t, "load_kernel", "furnsh")
    /\ LET key == Resolve(Top(t).arg) IN
       \/ /\ key \in kernel_dir
          /\ pool' = [pool EXCEPT ![key] = @ + 1]
          /\ furnsh_calls' = [furnsh_calls EXCEPT ![key] = @ + 1]
          /\ loaded_kernels' = loaded_kernels \cup {key}
          /\ Release(t)
          /\ Return(t)
          /\ admitted' = [admitted EXCEPT ![t] = Append(@, key)]
          /\ ensured' = [ensured EXCEPT ![t] = @ \cup {key}]
       \/ /\ Raise(t, "SpiceError")
          /\ UNCHANGED <<pool, furnsh_calls, loaded_kernels, admitted, ensured>>
    /\ UNCHANGED <<kernel_dir, generic_loaded, mission_kernels_loaded,
                   segmented_files_loaded, fixed, returned, scraps, ops, fetched>>

(***************************************************************************)
(* KernelManager.unload_all()                                              *)
(***************************************************************************)
\* with self._lock: spice.kclear() is entered
UaAcquire(t) ==
    /\ At(t, "unload_all", "acquire")
    /\ Acquire(t)
    /\ Goto(t, "kclear")
    /\ UNCHANGED <<kernel_dir, tracking, pool, result, fixed, returned, scraps, ops, furnsh_calls, logs>>

\* spice.kclear() ends; self._loaded_kernels.clear()
UaKclear(t) ==
    /\ At(t, "unload_all", "kclear")
    /\ pool' = [f \in Files |-> 0]
    /\ furnsh_calls' = [f \in Files |-> 0]
    /\ loaded_kernels' = {}
    /\ Goto(t, "generic")
    /\ UNCHANGED <<kernel_dir, generic_loaded, mission_kernels_loaded,
                   segmented_files_loaded, lock_owner, lock_depth, result, fixed, returned, scraps, ops,
                   logs>>

\* unload_all without "self._generic_loaded = False"
UaGenericKept(t) ==
    /\ At(t, "unload_all", "generic")
    /\ Goto(t, "mission")
    /\ UNCHANGED <<kernel_dir, tracking, pool, lock_owner, lock_depth, result, fixed, returned, scraps,
                   ops, furnsh_calls, logs>>

\* self._generic_loaded = False
UaGeneric(t) ==
    /\ At(t, "unload_all", "generic")
    /\ generic_loaded' = FALSE
    /\ Goto(t, "mission")
    /\ UNCHANGED <<kernel_dir, loaded_kernels, mission_kernels_loaded,
                   segmented_files_loaded, pool, lock_owner, lock_depth, result, fixed, returned, scraps,
                   ops, furnsh_calls, logs>>

\* self._mission_kernels_loaded.clear()
UaMission(t) ==
    /\ At(t, "unload_all", "mission")
    /\ mission_kernels_loaded' = {}
    /\ Goto(t, "segmented")
    /\ UNCHANGED <<kernel_dir, loaded_kernels, generic_loaded, segmented_files_loaded,
                   pool, lock_owner, lock_depth, result, fixed, returned, scraps, ops, furnsh_calls, logs>>

\* self._segmented_files_loaded.clear(), and the with block ends
UaSegmented(t) ==
    /\ At(t, "unload_all", "segmented")
    /\ segmented_files_loaded' = {}
    /\ Release(t)
    /\ Return(t)
    /\ UNCHANGED <<kernel_dir, loaded_kernels, generic_loaded, mission_kernels_loaded,
                   pool, fixed, returned, scraps, ops, furnsh_calls, logs>>

(***************************************************************************)
(* KernelManager.ensure_generic_kernels()                                  *)
(***************************************************************************)
\* "for filename in files: path = self.download_kernel(url, filename);
\* self.load_kernel(path)" as the calls it makes: download then load of the
\* first file, then of the second, ...
EnsureFiles(files) ==
    LET n == Len(files) IN
    [i \in 1..(2 * n) |->
        LET f == files[n - ((i - 1) \div 2)] IN
        IF i % 2 = 1 THEN Frame("load_kernel", "acquire", f)
        ELSE Frame("download_kernel", "check", f)]

\* the planetary ephemeris listed first
GenericFilesSpkFirst == <<"de440s.bsp", "naif0012.tls", "pck00011.tpc", "gm_de440.tpc">>

\* url = GENERIC_KERNELS.get(filename); if url is None: continue
GenericFiles == SelectSeq(ordered_files, LAMBDA f : f \in GENERIC_KERNELS)

\* ensure_generic_kernels without "if self._generic_loaded: return"
EgCheckNoFlag(t) ==
    /\ At(t, "ensure_generic_kernels", "check")
    /\ Continue(t, [Top(t) EXCEPT !.pc = "set"], EnsureFiles(GenericFiles))
    /\ UNCHANGED <<kernel_dir, tracking, pool, lock_owner, lock_depth, result, fixed, returned, scraps,
                   ops, furnsh_calls, logs>>

\* ensure_generic_kernels setting self._generic_loaded before its loop
EgCheckSetFirst(t) ==
    /\ At(t, "ensure_generic_kernels", "check")
    /\ IF generic_loaded
       THEN Return(t) /\ UNCHANGED generic_loaded
       ELSE /\ generic_loaded' = TRUE
            /\ Continue(t, [Top(t) EXCEPT !.pc = "set"], EnsureFiles(GenericFiles))
            /\ UNCHANGED result
    /\ UNCHANGED <<kernel_dir, loaded_kernels, mission_kernels_loaded,
                   segmented_files_loaded, pool, lock_owner, lock_depth, fixed, returned, scraps, ops,
                   furnsh_calls, logs>>

\* ensure_generic_kernels, were its loop inside "with self._lock"
EgCheckLocked(t) ==
    /\ At(t, "ensure_generic_kernels", "check")
    /\ IF generic_loaded
       THEN Return(t) /\ UNCHANGED <<lock_owner, lock_depth>>
       ELSE /\ CanAcquire(t)
            /\ Acquire(t)
            /\ Continue(t, [Top(t) EXCEPT !.pc = "set"], EnsureFiles(GenericFiles))
            /\ UNCHANGED result
    /\ UNCHANGED <<kernel_dir, tracking, pool, fixed, returned, scraps, ops, furnsh_calls, logs>>

\* if self._generic_loaded: return; otherwise the loop over ordered_files
EgCheck(t) ==
    /\ At(t, "ensure_generic_kernels", "check")
    /\ IF generic_loaded
       THEN Return(t)
       ELSE /\ Continue(t, [Top(t) EXCEPT !.pc = "set"], EnsureFiles(GenericFiles))
            /\ UNCHANGED result
    /\ UNCHANGED <<kernel_dir, tracking, pool, lock_owner, lock_depth, fixed, returned, scraps, ops,
                   furnsh_calls, logs>>

\* self._generic_loaded = True
EgSet(t) ==
    /\ At(t, "ensure_generic_kernels", "set")
    /\ generic_loaded' = TRUE
    /\ Return(t)
    /\ UNCHANGED <<kernel_dir, loaded_kernels, mission_kernels_loaded,
                   segmented_files_loaded, pool, lock_owner, lock_depth, fixed, returned, scraps, ops,
                   furnsh_calls, logs>>

(***************************************************************************)
(* KernelManager.ensure_mission_kernels(mission_key)                       *)
(***************************************************************************)
\* ensure_mission_kernels without "if mission_key in
\* self._mission_kernels_loaded: return"
EmCheckNoFlag(t) ==
    /\ At(t, "ensure_mission_kernels", "check")
    /\ Continue(t, [Top(t) EXCEPT !.pc = "lookup"],
                <<Frame("ensure_generic_kernels", "check", "")>>)
    /\ UNCHANGED <<kernel_dir, tracking, pool, lock_owner, lock_depth, result, fixed, returned, scraps,
                   ops, furnsh_calls, logs>>

\* if mission_key in self._mission_kernels_loaded: return
\* self.ensure_generic_kernels()
EmCheck(t) ==
    /\ At(t, "ensure_mission_kernels", "check")
    /\ IF Top(t).arg \in mission_kernels_loaded
       THEN Return(t)
       ELSE /\ Continue(t, [Top(t) EXCEPT !.pc = "lookup"],
                        <<Frame("ensure_generic_kernels", "check", "")>>)
            /\ UNCHANGED result
    /\ UNCHANGED <<kernel_dir, tracking, pool, lock_owner, lock_depth, fixed, returned, scraps, ops,
                   furnsh_calls, logs>>

\* ensure_mission_kernels without the SEGMENTED_MISSIONS test: one KeyError
EmLookupOneError(t) ==
    /\ At(t, "ensure_mission_kernels", "lookup")
    /\ LET M == Top(t).arg IN
       IF M \notin DOMAIN MISSION_KERNELS
       THEN Raise(t, "KeyError: no SPICE kernels defined")
       ELSE /\ Continue(t, [Top(t) EXCEPT !.pc = "add"], EnsureFiles(MISSION_KERNELS[M]))
            /\ UNCHANGED <<result, lock_owner, lock_depth>>
    /\ UNCHANGED <<kernel_dir, tracking, pool, fixed, returned, scraps, ops, furnsh_calls, logs>>

\* kernels = MISSION_KERNELS.get(mission_key); the two KeyErrors; the loop over
\* kernels.items()
EmLookup(t) ==
    /\ At(t, "ensure_mission_kernels", "lookup")
    /\ LET M == Top(t).arg IN
       IF M \notin DOMAIN MISSION_KERNELS
       THEN Raise(t, IF M \in SEGMENTED_MISSIONS THEN "KeyError: uses segmented kernels"
                     ELSE "KeyError: no SPICE kernels defined")
       ELSE /\ Continue(t, [Top(t) EXCEPT !.pc = "add"], EnsureFiles(MISSION_KERNELS[M]))
            /\ UNCHANGED <<result, lock_owner, lock_depth>>
    /\ UNCHANGED <<kernel_dir, tracking, pool, fixed, returned, scraps, ops, furnsh_calls, logs>>

\* self._mission_kernels_loaded.add(mission_key)
EmAdd(t) ==
    /\ At(t, "ensure_mission_kernels", "add")
    /\ mission_kernels_loaded' = mission_kernels_loaded \cup {Top(t).arg}
    /\ Return(t)
    /\ UNCHANGED <<kernel_dir, loaded_kernels, generic_loaded, segmented_files_loaded,
                   pool, lock_owner, lock_depth, fixed, returned, scraps, ops, furnsh_calls, logs>>

(***************************************************************************)
(* KernelManager.ensure_segmented_kernels(mission_key, time_start,         *)
(* time_end)                                                               *)
(***************************************************************************)
\* a frame of ensure_segmented_kernels: the files of matching still to visit;
\* before is _segmented_files_loaded as the call found it
SegmentedFrame(mission_key, time_start, time_end) ==
    [fn |-> "ensure_segmented_kernels", pc |-> "start",
     arg |-> [mission_key |-> mission_key, time_start |-> time_start,
              time_end |-> time_end],
     todo |-> <<>>, before |-> {}]

\* matching, with the exclusive comparisons
MatchingExclusive(m, time_start, time_end) ==
    SelectSeq(m, LAMBDA seg : seg.start < time_end /\ seg.stop > time_start)

\* matching: the segments with seg_start <= time_end and seg_stop >= time_start,
\* in the manifest's order
Matching(m, time_start, time_end) ==
    SelectSeq(m, LAMBDA seg : seg.start <= time_end /\ seg.stop >= time_start)

\* first = manifest[0]["start"], last = manifest[-1]["stop"]
CoverageSpan(m) == [first |-> m[1].start, last |-> m[Len(m)].stop]

\* self.ensure_generic_kernels()
EsStart(t) ==
    /\ At(t, "ensure_segmented_kernels", "start")
    /\ Continue(t, [Top(t) EXCEPT !.pc = "select", !.before = segmented_files_loaded],
                <<Frame("ensure_generic_kernels", "check", "")>>)
    /\ UNCHANGED <<kernel_dir, tracking, pool, lock_owner, lock_depth, result, fixed, returned, scraps,
                   ops, furnsh_calls, logs>>

\* ensure_segmented_kernels reporting an empty manifest as missing coverage
EsSelectOneError(t) ==
    /\ At(t, "ensure_segmented_kernels", "select")
    /\ LET a == Top(t).arg
           matching == Matching(manifest, a.time_start, a.time_end)
       IN  IF a.mission_key \notin SEGMENTED_MISSIONS
           THEN Raise(t, "KeyError")
           ELSE IF matching = <<>>
           THEN Raise(t, "ValueError: no kernel segments cover the range")
           ELSE /\ Continue(t, [Top(t) EXCEPT
                        !.pc = "loop",
                        !.todo = [i \in 1..Len(matching) |-> matching[i].file]], <<>>)
                /\ UNCHANGED <<result, lock_owner, lock_depth>>
    /\ UNCHANGED <<kernel_dir, tracking, pool, fixed, returned, scraps, ops, furnsh_calls, logs>>

\* manifest = self._load_manifest(mission_key) (SEGMENTED_MISSIONS[mission_key]
\* raises KeyError); matching; the two ValueErrors when nothing matches
EsSelect(t) ==
    /\ At(t, "ensure_segmented_kernels", "select")
    /\ LET a == Top(t).arg
           matching == Matching(manifest, a.time_start, a.time_end)
       IN  IF a.mission_key \notin SEGMENTED_MISSIONS
           THEN Raise(t, "KeyError")
           ELSE IF matching = <<>>
           THEN IF manifest # <<>>
                THEN Raise(t, "ValueError: no kernel segments cover the range")
                ELSE Raise(t, "ValueError: manifest is empty")
           ELSE /\ Continue(t, [Top(t) EXCEPT
                        !.pc = "loop",
                        !.todo = [i \in 1..Len(matching) |-> matching[i].file]], <<>>)
                /\ UNCHANGED <<result, lock_owner, lock_depth>>
    /\ UNCHANGED <<kernel_dir, tracking, pool, fixed, returned, scraps, ops, furnsh_calls, logs>>

\* the loop of ensure_segmented_kernels without "if filename in
\* self._segmented_files_loaded: continue"
EsLoopNoSkip(t) ==
    /\ At(t, "ensure_segmented_kernels", "loop")
    /\ LET todo == Top(t).todo IN
       IF todo = <<>>
       THEN Return(t)
       ELSE /\ Continue(t, [Top(t) EXCEPT !.pc = "add"], EnsureFiles(<<Head(todo)>>))
            /\ UNCHANGED result
    /\ UNCHANGED <<kernel_dir, tracking, pool, lock_owner, lock_depth, fixed, returned, scraps, ops,
                   furnsh_calls, logs>>

\* for seg in matching: a file in self._segmented_files_loaded is skipped; for
\* another, download_kernel and load_kernel are called
EsLoop(t) ==
    /\ At(t, "ensure_segmented_kernels", "loop")
    /\ LET todo == Top(t).todo IN
       IF todo = <<>>
       THEN Return(t)
       ELSE /\ IF Head(todo) \in segmented_files_loaded
               THEN Continue(t, [Top(t) EXCEPT !.todo = Tail(todo)], <<>>)
               ELSE Continue(t, [Top(t) EXCEPT !.pc = "add"], EnsureFiles(<<Head(todo)>>))
            /\ UNCHANGED result
    /\ UNCHANGED <<kernel_dir, tracking, pool, lock_owner, lock_depth, fixed, returned, scraps, ops,
                   furnsh_calls, logs>>

\* self._segmented_files_loaded.add(filename)
EsAdd(t) ==
    /\ At(t, "ensure_segmented_kernels", "add")
    /\ segmented_files_loaded' = segmented_files_loaded \cup {Head(Top(t).todo)}
    /\ Continue(t, [Top(t) EXCEPT !.pc = "loop", !.todo = Tail(@)], <<>>)
    /\ UNCHANGED <<kernel_dir, loaded_kernels, generic_loaded, mission_kernels_loaded,
                   pool, lock_owner, lock_depth, result, fixed, returned, scraps, ops, furnsh_calls,
                   logs>>

(***************************************************************************)
(* KernelManager.delete_cached_files(filenames)                            *)
(***************************************************************************)
\* with self._lock:
DcAcquire(t) ==
    /\ At(t, "delete_cached_files", "acquire")
    /\ Acquire(t)
    /\ Continue(t, [Top(t) EXCEPT !.pc = "loop",
                                  !.before = kernel_dir \cup empty_files,
                                  !.zero = empty_files], <<>>)
    /\ UNCHANGED <<kernel_dir, tracking, pool, result, fixed, returned, scraps, ops, furnsh_calls, logs>>

\* the loop, were it to stop at the first name not on disk
DcLoopAbort(t) ==
    /\ At(t, "delete_cached_files", "loop")
    /\ LET todo == Top(t).todo IN
       IF todo = <<>>
       THEN Goto(t, "invalidate")
       ELSE IF ~OnDisk(Head(todo))
       THEN Continue(t, [Top(t) EXCEPT
                !.todo = <<>>,
                !.errs = Append(@, <<Head(todo), "not found in cache">>)], <<>>)
       ELSE Continue(t, [Top(t) EXCEPT
                !.size = StatSize(Head(todo)),
                !.pc = IF Head(todo) \in loaded_kernels THEN "unload"
                       ELSE "seg_discard"], <<>>)
    /\ UNCHANGED <<kernel_dir, tracking, pool, lock_owner, lock_depth, result, fixed, returned, scraps,
                   ops, furnsh_calls, logs>>

\* for fname in filenames: a name not on disk is an error and the loop goes on;
\* for a loaded one (the key is the canonical path of kernel_dir/fname)
\* spice.unload(key) is entered
DcLoop(t) ==
    /\ At(t, "delete_cached_files", "loop")
    /\ LET todo == Top(t).todo IN
       IF todo = <<>>
       THEN Goto(t, "invalidate")
       ELSE IF ~OnDisk(Head(todo))
       THEN Continue(t, [Top(t) EXCEPT
                !.todo = Tail(todo),
                !.errs = Append(@, <<Head(todo), "not found in cache">>)], <<>>)
       ELSE Continue(t, [Top(t) EXCEPT
                !.size = StatSize(Head(todo)),
                !.pc = IF Head(todo) \in loaded_kernels THEN "unload"
                       ELSE "seg_discard"], <<>>)
    /\ UNCHANGED <<kernel_dir, tracking, pool, lock_owner, lock_depth, result, fixed, returned, scraps,
                   ops, furnsh_calls, logs>>

\* the step, were the path left in self._loaded_kernels
DcUnloadKeepsPath(t) ==
    /\ At(t, "delete_cached_files", "unload")
    /\ LET key == Head(Top(t).todo) IN
       /\ \/ pool' = [pool EXCEPT ![key] = IF @ > 0 THEN @ - 1 ELSE 0]
          \/ UNCHANGED pool
       /\ furnsh_calls' = [furnsh_calls EXCEPT ![key] = 0]
    /\ Goto(t, "seg_discard")
    /\ UNCHANGED <<kernel_dir, tracking, lock_owner, lock_depth, result, fixed, returned,
                   scraps, ops, logs>>

\* try: spice.unload(key) except Exception: pass; self._loaded_kernels.discard(key)
DcUnload(t) ==
    /\ At(t, "delete_cached_files", "unload")
    /\ LET key == Head(Top(t).todo) IN
       /\ \/ pool' = [pool EXCEPT ![key] = IF @ > 0 THEN @ - 1 ELSE 0]
          \/ UNCHANGED pool
       /\ loaded_kernels' = loaded_kernels \ {key}
       /\ furnsh_calls' = [furnsh_calls EXCEPT ![key] = 0]
    /\ Goto(t, "seg_discard")
    /\ UNCHANGED <<kernel_dir, generic_loaded, mission_kernels_loaded,
                   segmented_files_loaded, lock_owner, lock_depth, result, fixed, returned, scraps, ops,
                   logs>>

\* self._segmented_files_loaded.discard(fname)
DcSegDiscard(t) ==
    /\ At(t, "delete_cached_files", "seg_discard")
    /\ segmented_files_loaded' = segmented_files_loaded \ {Head(Top(t).todo)}
    /\ Goto(t, "unlink")
    /\ UNCHANGED <<kernel_dir, loaded_kernels, generic_loaded, mission_kernels_loaded,
                   pool, lock_owner, lock_depth, result, fixed, returned, scraps, ops, furnsh_calls, logs>>

\* path.unlink(): the file goes and is listed in deleted, or the error is kept
DcUnlink(t) ==
    /\ At(t, "delete_cached_files", "unlink")
    /\ LET fname == Head(Top(t).todo) IN
       \/ /\ OnDisk(fname)
          /\ kernel_dir' = kernel_dir \ {fname}
          /\ empty_files' = empty_files \ {fname}
          /\ tmp_dir' = tmp_dir \ {fname}
          /\ Unlinks({fname})
          /\ Continue(t, [Top(t) EXCEPT !.pc = "loop", !.todo = Tail(@),
                                        !.done = Append(@, fname),
                                        !.freed = @ + Top(t).size], <<>>)
       \/ /\ UNCHANGED <<kernel_dir, scraps>>
          /\ Continue(t, [Top(t) EXCEPT !.pc = "loop", !.todo = Tail(@),
                                        !.errs = Append(@, <<fname, "OSError">>)], <<>>)
    /\ UNCHANGED <<tracking, pool, lock_owner, lock_depth, result, fixed, returned, ops,
                   furnsh_calls, logs>>

\* invalidated_missions = {file_map.get(f) for f in deleted} - {None}
Invalidated(deleted) == {FileToMission(f) : f \in SeqToSet(deleted)} \ {"UNKNOWN"}

\* the step, were the mission flags left as they are
DcInvalidateKeep(t) ==
    /\ At(t, "delete_cached_files", "invalidate")
    /\ Goto(t, "inv_generic")
    /\ UNCHANGED <<kernel_dir, tracking, pool, lock_owner, lock_depth, result, fixed,
                   returned, scraps, ops, furnsh_calls, logs>>

\* self._mission_kernels_loaded -= invalidated_missions
DcInvalidate(t) ==
    /\ At(t, "delete_cached_files", "invalidate")
    /\ mission_kernels_loaded' = mission_kernels_loaded \ Invalidated(Top(t).done)
    /\ Goto(t, "inv_generic")
    /\ UNCHANGED <<kernel_dir, loaded_kernels, generic_loaded, segmented_files_loaded,
                   pool, lock_owner, lock_depth, result, fixed, returned, scraps, ops, furnsh_calls, logs>>

\* if "GENERIC" in invalidated_missions: self._generic_loaded = False; the with
\* block ends and the result is returned: deleted, freed_mb and the errors (an
\* empty list stands for the absent key)
DcInvGeneric(t) ==
    /\ At(t, "delete_cached_files", "inv_generic")
    /\ generic_loaded' = IF "GENERIC" \in Invalidated(Top(t).done) THEN FALSE
                         ELSE generic_loaded
    /\ Release(t)
    /\ Return(t)
    /\ returned' = [returned EXCEPT ![t] =
            [deleted |-> Top(t).done, freed_mb |-> RoundMb(Top(t).freed),
             errors |-> Top(t).errs]]
    /\ UNCHANGED <<kernel_dir, loaded_kernels, mission_kernels_loaded,
                   segmented_files_loaded, pool, fixed, scraps, ops, furnsh_calls, logs>>

(***************************************************************************)
(* Cache bookkeeping: get_cache_size_bytes, get_cache_info,                *)
(* delete_mission_cache and purge_cache.  None of them takes the lock for  *)
(* its listing of the directory.                                           *)
(***************************************************************************)
\* the listing, were temporary files not left out
CachedFilesUnfiltered == Iterdir

\* [f for f in self._kernel_dir.iterdir()
\*  if f.is_file() and not f.name.endswith(".tmp")]
CachedFiles == {n \in Iterdir : ~endswith_tmp(n)}

RECURSIVE TotalSize(_)
\* sum(f.stat().st_size for f in files)
TotalSize(S) ==
    IF S = {} THEN 0
    ELSE LET f == CHOOSE x \in S : TRUE IN StatSize(f) + TotalSize(S \ {f})

RECURSIVE TotalMb(_)
\* the per-file size_mb values added up, in hundredths of a megabyte
TotalMb(S) ==
    IF S = {} THEN 0
    ELSE LET f == CHOOSE x \in S : TRUE IN RoundMb(StatSize(f)) + TotalMb(S \ {f})

\* a frame of an enumeration: files is its listing, seen the directory as the
\* listing found it
CacheFrame(fn, arg) ==
    [fn |-> fn, pc |-> "list", arg |-> arg, files |-> {}, seen |-> {}]

\* get_cache_size_bytes: the loop over iterdir() begins
GcsList(t) ==
    /\ At(t, "get_cache_size_bytes", "list")
    /\ Continue(t, [Top(t) EXCEPT !.pc = "total", !.files = CachedFiles,
                                  !.seen = Iterdir], <<>>)
    /\ UNCHANGED <<kernel_dir, tracking, pool, lock_owner, lock_depth, result, fixed,
                   returned, scraps, ops, furnsh_calls, logs>>

\* total += f.stat().st_size for each; stat raises for a file that has gone
GcsTotal(t) ==
    /\ At(t, "get_cache_size_bytes", "total")
    /\ IF Top(t).files \subseteq Iterdir
       THEN /\ returned' = [returned EXCEPT ![t] = TotalSize(Top(t).files)]
            /\ Return(t)
            /\ UNCHANGED <<lock_owner, lock_depth>>
       ELSE Raise(t, "FileNotFoundError") /\ UNCHANGED returned
    /\ UNCHANGED <<kernel_dir, tracking, pool, fixed, scraps, ops, furnsh_calls, logs>>

\* get_cache_info: files = [...]
GciList(t) ==
    /\ At(t, "get_cache_info", "list")
    /\ Continue(t, [Top(t) EXCEPT !.pc = "report", !.files = CachedFiles,
                                  !.seen = Iterdir], <<>>)
    /\ UNCHANGED <<kernel_dir, tracking, pool, lock_owner, lock_depth, result, fixed,
                   returned, scraps, ops, furnsh_calls, logs>>

\* the files of a listing that the file map gives to mission m
GroupOf(files, m) == {f \in files : FileToMission(f) = m}

\* the report, were a file without an entry in the file map left out of the
\* groups
GciReportMappedOnly(t) ==
    /\ At(t, "get_cache_info", "report")
    /\ LET files == Top(t).files IN
       IF files \subseteq Iterdir
       THEN /\ returned' = [returned EXCEPT ![t] =
                    [total_size_mb |-> RoundMb(TotalSize(files)),
                     file_count |-> Cardinality(files),
                     missions |->
                        [m \in {FileToMission(f) : f \in files} \ {"UNKNOWN"} |->
                            [size_mb |-> TotalMb(GroupOf(files, m)),
                             file_count |-> Cardinality(GroupOf(files, m)),
                             files |-> ListOf(GroupOf(files, m))]]]]
            /\ Return(t)
            /\ UNCHANGED <<lock_owner, lock_depth>>
       ELSE Raise(t, "FileNotFoundError") /\ UNCHANGED returned
    /\ UNCHANGED <<kernel_dir, tracking, pool, fixed, scraps, ops, furnsh_calls, logs>>

\* total, the groups by file_map.get(f.name, "UNKNOWN"), and the summary
GciReport(t) ==
    /\ At(t, "get_cache_info", "report")
    /\ LET files == Top(t).files IN
       IF files \subseteq Iterdir
       THEN /\ returned' = [returned EXCEPT ![t] =
                    [total_size_mb |-> RoundMb(TotalSize(files)),
                     file_count |-> Cardinality(files),
                     missions |->
                        [m \in {FileToMission(f) : f \in files} |->
                            [size_mb |-> TotalMb(GroupOf(files, m)),
                             file_count |-> Cardinality(GroupOf(files, m)),
                             files |-> ListOf(GroupOf(files, m))]]]]
            /\ Return(t)
            /\ UNCHANGED <<lock_owner, lock_depth>>
       ELSE Raise(t, "FileNotFoundError") /\ UNCHANGED returned
    /\ UNCHANGED <<kernel_dir, tracking, pool, fixed, scraps, ops, furnsh_calls, logs>>

\* the selection, were the file map not asked
DmcSelectAll(t) ==
    /\ At(t, "delete_mission_cache", "list")
    /\ LET to_delete == ListOf(CachedFiles) IN
       IF to_delete = <<>>
       THEN /\ returned' = [returned EXCEPT ![t] =
                    [deleted |-> <<>>, freed_mb |-> 0,
                     message |-> "No cached files for mission"]]
            /\ Return(t)
       ELSE /\ Continue(t, DeleteFrame(to_delete), <<>>)
            /\ UNCHANGED <<result, returned>>
    /\ UNCHANGED <<kernel_dir, tracking, pool, lock_owner, lock_depth, fixed, scraps, ops,
                   furnsh_calls, logs>>

\* delete_mission_cache: to_delete, the listed files the file map gives to
\* mission_key; none: the message result; otherwise
\* return self.delete_cached_files(to_delete)
DmcSelect(t) ==
    /\ At(t, "delete_mission_cache", "list")
    /\ LET to_delete == ListOf(GroupOf(CachedFiles, Top(t).arg)) IN
       IF to_delete = <<>>
       THEN /\ returned' = [returned EXCEPT ![t] =
                    [deleted |-> <<>>, freed_mb |-> 0,
                     message |-> "No cached files for mission"]]
            /\ Return(t)
       ELSE /\ Continue(t, DeleteFrame(to_delete), <<>>)
            /\ UNCHANGED <<result, returned>>
    /\ UNCHANGED <<kernel_dir, tracking, pool, lock_owner, lock_depth, fixed, scraps, ops,
                   furnsh_calls, logs>>

\* a frame of purge_cache, entered once its unload_all has returned: the files
\* still to visit, deleted, freed, errors; done is the names it has removed
PurgeFrame ==
    [fn |-> "purge_cache", pc |-> "list", arg |-> "", todo |-> <<>>, files |-> {},
     seen |-> {}, deleted |-> 0, freed |-> 0, errs |-> <<>>, done |-> {}]

\* files = [...]
PcList(t) ==
    /\ At(t, "purge_cache", "list")
    /\ Continue(t, [Top(t) EXCEPT !.pc = "loop", !.files = CachedFiles,
                                  !.todo = ListOf(CachedFiles), !.seen = Iterdir], <<>>)
    /\ UNCHANGED <<kernel_dir, tracking, pool, lock_owner, lock_depth, result, fixed,
                   returned, scraps, ops, furnsh_calls, logs>>

\* the loop, were it to end at the first error
PcLoopAbort(t) ==
    /\ At(t, "purge_cache", "loop")
    /\ LET todo == Top(t).todo
           f == Head(todo) IN
       IF todo = <<>>
       THEN /\ returned' = [returned EXCEPT ![t] =
                    [deleted_count |-> Top(t).deleted,
                     freed_mb |-> RoundMb(Top(t).freed), errors |-> Top(t).errs]]
            /\ Return(t)
            /\ UNCHANGED <<kernel_dir, scraps>>
       ELSE /\ UNCHANGED <<result, returned>>
            /\ IF ~OnDisk(f)
               THEN /\ Continue(t, [Top(t) EXCEPT !.todo = <<>>,
                        !.errs = Append(@, <<f, "FileNotFoundError">>)], <<>>)
                    /\ UNCHANGED <<kernel_dir, scraps>>
               ELSE \/ /\ kernel_dir' = kernel_dir \ {f}
                       /\ empty_files' = empty_files \ {f}
                       /\ tmp_dir' = tmp_dir \ {f}
                       /\ Unlinks({f})
                       /\ Continue(t, [Top(t) EXCEPT !.todo = Tail(@),
                                !.freed = @ + StatSize(f), !.deleted = @ + 1,
                                !.done = @ \cup {f}], <<>>)
                    \/ /\ UNCHANGED <<kernel_dir, scraps>>
                       /\ Continue(t, [Top(t) EXCEPT !.todo = <<>>,
                                !.freed = @ + StatSize(f),
                                !.errs = Append(@, <<f, "OSError">>)], <<>>)
    /\ UNCHANGED <<tracking, pool, lock_owner, lock_depth, fixed, ops, furnsh_calls, logs>>

\* for f in files: freed += f.stat().st_size; f.unlink(); deleted += 1, an
\* exception of either being kept in errors; after the last file the result
\* is returned: deleted_count, freed_mb and the errors
PcLoop(t) ==
    /\ At(t, "purge_cache", "loop")
    /\ LET todo == Top(t).todo
           f == Head(todo) IN
       IF todo = <<>>
       THEN /\ returned' = [returned EXCEPT ![t] =
                    [deleted_count |-> Top(t).deleted,
                     freed_mb |-> RoundMb(Top(t).freed), errors |-> Top(t).errs]]
            /\ Return(t)
            /\ UNCHANGED <<kernel_dir, scraps>>
       ELSE /\ UNCHANGED <<result, returned>>
            /\ IF ~OnDisk(f)
               THEN /\ Continue(t, [Top(t) EXCEPT !.todo = Tail(@),
                        !.errs = Append(@, <<f, "FileNotFoundError">>)], <<>>)
                    /\ UNCHANGED <<kernel_dir, scraps>>
               ELSE \/ /\ kernel_dir' = kernel_dir \ {f}
                       /\ empty_files' = empty_files \ {f}
                       /\ tmp_dir' = tmp_dir \ {f}
                       /\ Unlinks({f})
                       /\ Continue(t, [Top(t) EXCEPT !.todo = Tail(@),
                                !.freed = @ + StatSize(f), !.deleted = @ + 1,
                                !.done = @ \cup {f}], <<>>)
                    \/ /\ UNCHANGED <<kernel_dir, scraps>>
                       /\ Continue(t, [Top(t) EXCEPT !.todo = Tail(@),
                                !.freed = @ + StatSize(f),
                                !.errs = Append(@, <<f, "OSError">>)], <<>>)
    /\ UNCHANGED <<tracking, pool, lock_owner, lock_depth, fixed, ops, furnsh_calls, logs>>

(***************************************************************************)
(* ephemeris.py.  The SPICE primitives answer from the kernel pool: utc2et *)
(* and et2utc need the leapseconds kernel, spkpos and spkezr need the      *)
(* ephemerides of both bodies (and may still find no coverage at the time  *)
(* asked for), bodn2c knows the library's built-in names.                  *)
(***************************************************************************)
\* ------------------------------------------------------------------------
\* missions.resolve_mission(name).  A name is the sequence of its characters.
\* ------------------------------------------------------------------------
\* the characters of the names callers pass
Alphabet == {"a", "A", "c", "e", "m", "M", "s", "1", "-", "_", " "}

\* the names callers pass: every string of up to MaxNameLen characters
NameInputs == UNION {[1..n -> Alphabet] : n \in 0..MaxNameLen}

\* str.upper() of one character
upper(c) ==
    CASE c = "a" -> "A" [] c = "c" -> "C" [] c = "e" -> "E" [] c = "m" -> "M"
      [] c = "s" -> "S" [] OTHER -> c

\* name.upper()
Upper(name) == [i \in 1..Len(name) |-> upper(name[i])]

\* name.strip()
Strip(name) ==
    LET inked == {i \in 1..Len(name) : name[i] # " "} IN
    IF inked = {} THEN <<>>
    ELSE SubSeq(name, CHOOSE i \in inked : \A j \in inked : i <= j,
                      CHOOSE i \in inked : \A j \in inked : i >= j)

\* name.replace("-", "_") and name.replace("_", "")
HyphensToUnderscores(name) == [i \in 1..Len(name) |-> IF name[i] = "-" THEN "_" ELSE name[i]]
WithoutUnderscores(name) == SelectSeq(name, LAMBDA c : c # "_")

\* the keys of MISSION_NAIF_IDS in the order of the table, and sorted
RegistryOrder == <<"ACE", "MMS1", "HELIOS_1", "CASSINI", "SUN">>
SortedKeys == <<"ACE", "CASSINI", "HELIOS_1", "MMS1", "SUN">>

\* the characters of each key
KeyText ==
    [k \in DOMAIN MISSION_NAIF_IDS |->
        CASE k = "ACE" -> <<"A", "C", "E">>
          [] k = "MMS1" -> <<"M", "M", "S", "1">>
          [] k = "HELIOS_1" -> <<"H", "E", "L", "I", "O", "S", "_", "1">>
          [] k = "CASSINI" -> <<"C", "A", "S", "S", "I", "N", "I">>
          [] k = "SUN" -> <<"S", "U", "N">>]

\* _ALIASES, for the keys modelled: "MMS", "HELIOS1", "HELIOS 1"
Aliases ==
    [a \in {<<"M", "M", "S">>, <<"H", "E", "L", "I", "O", "S", "1">>,
            <<"H", "E", "L", "I", "O", "S", " ", "1">>} |->
        IF a = <<"M", "M", "S">> THEN "MMS1" ELSE "HELIOS_1"]

\* the KeyError of resolve_mission: "Unknown mission ... Supported: " and the
\* sorted keys with a negative id
UnknownMission ==
    [error |-> "KeyError",
     supported |-> SelectSeq(SortedKeys, LAMBDA k : MISSION_NAIF_IDS[k] < 0)]

\* the pair resolve_mission returns for a key
Resolved(k) == [naif_id |-> MISSION_NAIF_IDS[k], key |-> k]

\* the three lookups of resolve_mission on a normalised key and the upper-case
\* name: the table, the aliases, the table without underscores
Lookup(key, name_upper) ==
    LET direct == {k \in DOMAIN MISSION_NAIF_IDS : KeyText[k] = key}
        alias == IF key \in DOMAIN Aliases THEN {Aliases[key]}
                 ELSE IF name_upper \in DOMAIN Aliases THEN {Aliases[name_upper]}
                 ELSE {}
        compact == WithoutUnderscores(key)
        fuzzy == {i \in 1..Len(RegistryOrder) :
                    WithoutUnderscores(KeyText[RegistryOrder[i]]) = compact}
    IN  IF direct # {} THEN Resolved(CHOOSE k \in direct : TRUE)
        ELSE IF alias # {} /\ alias \subseteq DOMAIN MISSION_NAIF_IDS
        THEN Resolved(CHOOSE k \in alias : TRUE)
        ELSE IF fuzzy # {}
        THEN Resolved(RegistryOrder[CHOOSE i \in fuzzy : \A j \in fuzzy : i <= j])
        ELSE UnknownMission

\* resolve_mission without .upper()
resolve_mission_cased(name) ==
    Lookup(HyphensToUnderscores(Strip(name)), Strip(name))

\* key = name.strip().upper().replace("-", "_"), then the lookups
resolve_mission(name) ==
    Lookup(HyphensToUnderscores(Upper(Strip(name))), Upper(Strip(name)))

\* resolve_mission(name) returns the pair or raises KeyError with its message
RmCall(t) ==
    /\ At(t, "resolve_mission", "call")
    /\ LET r == resolve_mission(Top(t).arg) IN
       /\ returned' = [returned EXCEPT ![t] = r]
       /\ IF "error" \in DOMAIN r
          THEN Raise(t, r.error)
          ELSE Return(t) /\ UNCHANGED <<lock_owner, lock_depth>>
    /\ UNCHANGED <<kernel_dir, tracking, pool, fixed, scraps, ops, furnsh_calls, logs>>

\* names outside the registry that the SPICE library knows by itself
BuiltinBodies == {"CERES"}

\* the kernels holding a body's ephemeris; none for a body these kernels lack
Ephemeris(body) ==
    CASE body = "SUN" -> {"de440s.bsp"}
      [] body \in DOMAIN MISSION_KERNELS -> SeqToSet(MISSION_KERNELS[body])
      [] OTHER -> {"none"}

Furnished == {f \in Files : pool[f] > 0}

HasLeapseconds == "naif0012.tls" \in Furnished

HasEphemeris(q) ==
    Ephemeris(q.target) \cup Ephemeris(q.observer) \subseteq Furnished

\* int(a / b) for b > 0: truncation towards zero
IntDiv(a, b) == IF a >= 0 THEN a \div b ELSE -((-a) \div b)

Max(a, b) == IF a >= b THEN a ELSE b

\* get_trajectory: the cap on the grid
GridCap == 100000

\* the grid size, were the capped grid to have as many points as the cap
GridSizeAtCap(span, step_s) ==
    LET n_steps == Max(1, IntDiv(span, step_s) + 1)
    IN  IF n_steps > GridCap THEN GridCap ELSE n_steps

\* n_steps = max(1, int((et_end - et_start) / step_s) + 1), capped
GridSize(span, step_s) ==
    LET n_steps == Max(1, IntDiv(span, step_s) + 1)
    IN  IF n_steps > GridCap THEN GridCap + 1 ELSE n_steps

\* _parse_step: the seconds of a step given as a number and a unit letter
\* (no letter: seconds)
parse_step(step) ==
    CASE step.unit = "d" -> step.value * 86400
      [] step.unit = "h" -> step.value * 3600
      [] step.unit = "m" -> step.value * 60
      [] OTHER -> step.value

\* the step after the cap, as a fraction: (et_end - et_start) / 100_000 for a
\* capped grid
GridStep(span, step_s) ==
    IF Max(1, IntDiv(span, step_s) + 1) > GridCap THEN <<span, GridCap>>
    ELSE <<step_s, 1>>

\* np.linspace(et_start, et_end, n_steps), as seconds after et_start: its
\* first and its last point (a grid of one point is the start alone)
Linspace(span, n_steps) ==
    [first |-> 0, last |-> IF n_steps > 1 THEN span ELSE 0]

\* get_trajectory from step_s = _parse_step(step) to et_times: the grid's
\* size, step and end points
TrGrid(t) ==
    /\ At(t, "get_trajectory", "n_steps")
    /\ LET span == Top(t).arg.span
           step_s == parse_step(Top(t).arg.step)
           n_steps == GridSize(span, step_s)
       IN  returned' = [returned EXCEPT ![t] =
                [n_steps |-> n_steps, step_s |-> GridStep(span, step_s),
                 et_times |-> Linspace(span, n_steps)]]
    /\ Return(t)
    /\ UNCHANGED <<kernel_dir, tracking, pool, lock_owner, lock_depth, fixed, scraps, ops,
                   furnsh_calls, logs>>

\* a frame of get_trajectory: the grid size and the grid point it is at
TrajectoryFrame(q) ==
    [fn |-> "get_trajectory", pc |-> "ensure", arg |-> q, n_steps |-> 0, i |-> 0]

\* the characters of the body names the callers of the queries pass
BodyText ==
    [b \in DOMAIN MISSION_NAIF_IDS \cup {"CERES", "VULCAN"} |->
        CASE b \in DOMAIN MISSION_NAIF_IDS -> KeyText[b]
          [] b = "CERES" -> <<"C", "E", "R", "E", "S">>
          [] b = "VULCAN" -> <<"V", "U", "L", "C", "A", "N">>]

\* the names for which resolve_mission(name) returns, or whose normalised
\* form is in MISSION_NAIF_IDS
RegistryNames ==
    {name \in DOMAIN BodyText :
        \/ "key" \in DOMAIN resolve_mission(BodyText[name])
        \/ \E k \in DOMAIN MISSION_NAIF_IDS :
                KeyText[k] = HyphensToUnderscores(Upper(Strip(BodyText[name])))}

InRegistry(name) == name \in RegistryNames

\* _resolve_body, were it to prepare the library before it asks the registry
RbStartEnsuresFirst(t) ==
    /\ At(t, "_resolve_body", "start")
    /\ Continue(t, [Top(t) EXCEPT !.pc = "acquire"],
                <<Frame("ensure_generic_kernels", "check", "")>>)
    /\ UNCHANGED <<kernel_dir, tracking, pool, lock_owner, lock_depth, result, fixed, returned,
                   scraps, ops, furnsh_calls, logs>>

\* _resolve_body: resolve_mission(name) or the MISSION_NAIF_IDS table answer;
\* otherwise km.ensure_generic_kernels() and then the lock
RbStart(t) ==
    /\ At(t, "_resolve_body", "start")
    /\ IF InRegistry(Top(t).arg)
       THEN Return(t)
       ELSE /\ Continue(t, [Top(t) EXCEPT !.pc = "acquire"],
                        <<Frame("ensure_generic_kernels", "check", "")>>)
            /\ UNCHANGED result
    /\ UNCHANGED <<kernel_dir, tracking, pool, lock_owner, lock_depth, fixed, returned, scraps, ops,
                   furnsh_calls, logs>>

\* with km.lock: spice.bodn2c(name.strip()) is entered
RbAcquire(t) ==
    /\ At(t, "_resolve_body", "acquire")
    /\ Acquire(t)
    /\ Goto(t, "bodn2c")
    /\ UNCHANGED <<kernel_dir, tracking, pool, result, fixed, returned, scraps, ops, furnsh_calls, logs>>

\* spice.bodn2c returns, or raises and the except clause raises KeyError
RbBodn2c(t) ==
    /\ At(t, "_resolve_body", "bodn2c")
    /\ IF Top(t).arg \in BuiltinBodies
       THEN Release(t) /\ Return(t)
       ELSE Raise(t, "KeyError: cannot resolve body name")
    /\ UNCHANGED <<kernel_dir, tracking, pool, fixed, returned, scraps, ops, furnsh_calls, logs>>

\* _ensure_kernels(target_key, observer_key), as the calls it makes: the last
\* of the sequence runs first
EnsureKernels(q) ==
    (IF q.observer \in DOMAIN MISSION_KERNELS
     THEN <<Frame("ensure_mission_kernels", "check", q.observer)>> ELSE <<>>)
    \o (IF q.target \in DOMAIN MISSION_KERNELS
        THEN <<Frame("ensure_mission_kernels", "check", q.target)>> ELSE <<>>)
    \o <<Frame("ensure_generic_kernels", "check", "")>>

PointQueries == {"get_position", "get_state"}

\* get_position, get_state: _ensure_kernels(target_key, observer_key)
QEnsure(t) ==
    /\ ~Idle(t) /\ Top(t).fn \in PointQueries /\ Top(t).pc = "ensure"
    /\ Continue(t, [Top(t) EXCEPT !.pc = "acquire"], EnsureKernels(Top(t).arg))
    /\ UNCHANGED <<kernel_dir, tracking, pool, lock_owner, lock_depth, result, fixed, returned, scraps,
                   ops, furnsh_calls, logs>>

\* get_position, get_state without "with km.lock"
QAcquireNoLock(t) ==
    /\ ~Idle(t) /\ Top(t).fn \in PointQueries /\ Top(t).pc = "acquire"
    /\ Goto(t, "utc2et")
    /\ UNCHANGED <<kernel_dir, tracking, pool, lock_owner, lock_depth, result, fixed, returned, scraps,
                   ops, furnsh_calls, logs>>

\* with km.lock: et = _to_et(time), spice.utc2et is entered
QAcquire(t) ==
    /\ ~Idle(t) /\ Top(t).fn \in PointQueries /\ Top(t).pc = "acquire"
    /\ Acquire(t)
    /\ Goto(t, "utc2et")
    /\ UNCHANGED <<kernel_dir, tracking, pool, result, fixed, returned, scraps, ops, furnsh_calls, logs>>

\* spice.utc2et returns and spice.spkpos (get_position) or spice.spkezr
\* (get_state) is entered, or utc2et raises
QUtc2et(t) ==
    /\ ~Idle(t) /\ Top(t).fn \in PointQueries /\ Top(t).pc = "utc2et"
    /\ IF HasLeapseconds
       THEN /\ Goto(t, IF Top(t).fn = "get_position" THEN "spkpos" ELSE "spkezr")
            /\ UNCHANGED <<result, lock_owner, lock_depth>>
       ELSE Raise(t, "SpiceError")
    /\ UNCHANGED <<kernel_dir, tracking, pool, fixed, returned, scraps, ops, furnsh_calls, logs>>

\* spice.spkpos or spice.spkezr returns and the with block is left, or it raises
QSpk(t) ==
    /\ ~Idle(t) /\ Top(t).fn \in PointQueries /\ Top(t).pc \in {"spkpos", "spkezr"}
    /\ \/ HasEphemeris(Top(t).arg) /\ Release(t) /\ Return(t)
       \/ Raise(t, "SpiceError")
    /\ UNCHANGED <<kernel_dir, tracking, pool, fixed, returned, scraps, ops, furnsh_calls, logs>>

\* _ensure_kernels(target_key, observer_key) called by itself: the calls it
\* makes, and its return
EkEnsure(t) ==
    /\ At(t, "_ensure_kernels", "ensure")
    /\ Continue(t, [Top(t) EXCEPT !.pc = "return"], EnsureKernels(Top(t).arg))
    /\ UNCHANGED <<kernel_dir, tracking, pool, lock_owner, lock_depth, result, fixed, returned, scraps,
                   ops, furnsh_calls, logs>>

EkReturn(t) ==
    /\ At(t, "_ensure_kernels", "return")
    /\ Return(t)
    /\ UNCHANGED <<kernel_dir, tracking, pool, lock_owner, lock_depth, fixed, returned, scraps,
                   ops, furnsh_calls, logs>>

\* get_trajectory: _ensure_kernels(target_key, observer_key)
TrEnsure(t) ==
    /\ At(t, "get_trajectory", "ensure")
    /\ Continue(t, [Top(t) EXCEPT !.pc = "acquire"], EnsureKernels(Top(t).arg))
    /\ UNCHANGED <<kernel_dir, tracking, pool, lock_owner, lock_depth, result, fixed, returned, scraps,
                   ops, furnsh_calls, logs>>

\* with km.lock: et_start = _to_et(time_start), spice.utc2et is entered
TrAcquire(t) ==
    /\ At(t, "get_trajectory", "acquire")
    /\ Acquire(t)
    /\ Goto(t, "utc2et_start")
    /\ UNCHANGED <<kernel_dir, tracking, pool, result, fixed, returned, scraps, ops, furnsh_calls, logs>>

\* utc2et returns and et_end = _to_et(time_end) enters it again, or it raises
TrUtc2etStart(t) ==
    /\ At(t, "get_trajectory", "utc2et_start")
    /\ IF HasLeapseconds
       THEN Goto(t, "utc2et_end") /\ UNCHANGED <<result, lock_owner, lock_depth>>
       ELSE Raise(t, "SpiceError")
    /\ UNCHANGED <<kernel_dir, tracking, pool, fixed, returned, scraps, ops, furnsh_calls, logs>>

\* utc2et returns, the with block is left and n_steps is computed, or it raises
TrUtc2etEnd(t) ==
    /\ At(t, "get_trajectory", "utc2et_end")
    /\ IF HasLeapseconds
       THEN /\ Release(t)
            /\ Continue(t, [Top(t) EXCEPT !.pc = "acquire_grid",
                               !.n_steps = GridSize(Top(t).arg.span, Top(t).arg.step_s)],
                        <<>>)
            /\ UNCHANGED result
       ELSE Raise(t, "SpiceError")
    /\ UNCHANGED <<kernel_dir, tracking, pool, fixed, returned, scraps, ops, furnsh_calls, logs>>

\* the primitive the grid loop calls first at each point
SpkOf(q) == IF q.include_velocity THEN "spkezr" ELSE "spkpos"

\* the grid loop, were it outside the with block
TrAcquireGridNoLock(t) ==
    /\ At(t, "get_trajectory", "acquire_grid")
    /\ Continue(t, [Top(t) EXCEPT !.pc = SpkOf(Top(t).arg), !.i = 1], <<>>)
    /\ UNCHANGED <<kernel_dir, tracking, pool, lock_owner, lock_depth, result, fixed, returned,
                   scraps, ops, furnsh_calls, logs>>

\* with km.lock: for i, et in enumerate(et_times): the first point is entered
TrAcquireGrid(t) ==
    /\ At(t, "get_trajectory", "acquire_grid")
    /\ Acquire(t)
    /\ Continue(t, [Top(t) EXCEPT !.pc = SpkOf(Top(t).arg), !.i = 1], <<>>)
    /\ UNCHANGED <<kernel_dir, tracking, pool, result, fixed, returned, scraps, ops, furnsh_calls, logs>>

\* spice.spkezr or spice.spkpos returns and spice.et2utc is entered, or it raises
TrSpk(t) ==
    /\ ~Idle(t) /\ Top(t).fn = "get_trajectory" /\ Top(t).pc \in {"spkpos", "spkezr"}
    /\ \/ /\ HasEphemeris(Top(t).arg)
          /\ Goto(t, "et2utc")
          /\ UNCHANGED <<result, lock_owner, lock_depth>>
       \/ Raise(t, "SpiceError")
    /\ UNCHANGED <<kernel_dir, tracking, pool, fixed, returned, scraps, ops, furnsh_calls, logs>>

\* spice.et2utc returns: the next grid point, or the with block is left after
\* the last one; or it raises
TrEt2utc(t) ==
    /\ At(t, "get_trajectory", "et2utc")
    /\ IF ~HasLeapseconds
       THEN Raise(t, "SpiceError")
       ELSE IF Top(t).i < Top(t).n_steps
       THEN /\ Continue(t, [Top(t) EXCEPT !.pc = SpkOf(Top(t).arg), !.i = @ + 1], <<>>)
            /\ UNCHANGED <<result, lock_owner, lock_depth>>
       ELSE Release(t) /\ Return(t)
    /\ UNCHANGED <<kernel_dir, tracking, pool, fixed, returned, scraps, ops, furnsh_calls, logs>>

(***************************************************************************)
(* KernelManager.check_remote_kernels(mission_key).  A URL is the sequence *)
(* of its path segments; a directory listing is the set of its links.      *)
(***************************************************************************)
\* the directory of the archive that holds the Helios kernels
HeliosDir == <<"naif.jpl.nasa.gov", "pub", "naif", "HELIOS", "kernels", "spk">>

\* MISSION_KERNELS with its URLs, in the order of the table; beside the
\* table's missions (each of which keeps its kernels in one directory) an
\* entry whose kernels are in two directories
KernelUrls ==
    [m \in DOMAIN MISSION_KERNELS \cup {"TWO_DIRS"} |->
        IF m = "TWO_DIRS"
        THEN <<[file |-> "a.bsp", url |-> <<"host", "A", "a.bsp">>],
               [file |-> "b.bsp", url |-> <<"host", "B", "b.bsp">>],
               [file |-> "c.bsp", url |-> <<"host", "A", "c.bsp">>]>>
        ELSE [i \in 1..Len(MISSION_KERNELS[m]) |->
                [file |-> MISSION_KERNELS[m][i],
                 url |-> Append(HeliosDir, MISSION_KERNELS[m][i])]]]

\* url.rsplit("/", 1)[0] + "/"
Parent(url) == SubSeq(url, 1, Len(url) - 1)

\* the keys of a dict filled in this order
RECURSIVE Unique(_)
Unique(s) ==
    IF s = <<>> THEN <<>>
    ELSE LET r == Unique(SubSeq(s, 1, Len(s) - 1))
             x == s[Len(s)]
         IN  IF \E j \in 1..Len(r) : r[j] = x THEN r ELSE Append(r, x)

\* parent_urls: the parent directory of each URL, once each
ParentUrls(kernels) == Unique([i \in 1..Len(kernels) |-> Parent(kernels[i].url)])

\* the links a directory listing may hold, sorted; and the suffix of each
Links == <<"100528R_helios1_74345_81272.bsp", "a.bsp", "new.BSP", "readme.txt">>

LinkSuffix(l) ==
    CASE l = "new.BSP" -> ".BSP" [] l = "readme.txt" -> ".txt" [] OTHER -> ".bsp"

\* str.lower() of a suffix
lower(x) == IF x = ".BSP" THEN ".bsp" ELSE x

\* sorted(link for link in parser.links if link.lower().endswith(".bsp"))
BspFiles(links) == SelectSeq(Links, LAMBDA l : l \in links /\ lower(LinkSuffix(l)) = ".bsp")

\* a frame of check_remote_kernels: the directories still to fetch, the
\* entries made, and all_other
RemoteFrame(mission_key) ==
    [fn |-> "check_remote_kernels", pc |-> "start", arg |-> mission_key,
     todo |-> <<>>, directories |-> <<>>, other |-> {}]

\* the two KeyErrors; otherwise parent_urls is derived
CrkStart(t) ==
    /\ At(t, "check_remote_kernels", "start")
    /\ LET M == Top(t).arg IN
       IF M \in SEGMENTED_MISSIONS \/ M \notin DOMAIN KernelUrls
       THEN Raise(t, "KeyError")
       ELSE /\ Continue(t, [Top(t) EXCEPT !.pc = "loop",
                                         !.todo = ParentUrls(KernelUrls[M])], <<>>)
            /\ UNCHANGED <<result, lock_owner, lock_depth>>
    /\ UNCHANGED <<kernel_dir, tracking, pool, fixed, returned, scraps, ops, furnsh_calls, logs>>

\* the entry of a directory whose listing came, and of one whose request or
\* parsing raised (error is None where the entry has no "error" key)
Listed(dir_url, links) == [url |-> dir_url, all_bsp_files |-> BspFiles(links), error |-> None]
Unlisted(dir_url) == [url |-> dir_url, all_bsp_files |-> <<>>, error |-> "404 Not Found"]

\* the loop, were it without the try block
CrkLoopRaises(t) ==
    /\ At(t, "check_remote_kernels", "loop")
    /\ Top(t).todo # <<>>
    /\ LET M == Top(t).arg
           dir_url == Head(Top(t).todo)
           configured == {KernelUrls[M][i].file : i \in 1..Len(KernelUrls[M])}
       IN  \/ \E links \in SUBSET SeqToSet(Links) :
                /\ Continue(t, [Top(t) EXCEPT
                        !.todo = Tail(@),
                        !.directories = Append(@, Listed(dir_url, links)),
                        !.other = @ \cup (SeqToSet(BspFiles(links)) \ configured)], <<>>)
                /\ UNCHANGED <<result, lock_owner, lock_depth>>
           \/ Raise(t, "Exception")
    /\ UNCHANGED <<kernel_dir, tracking, pool, fixed, returned, scraps, ops, furnsh_calls, logs>>

\* for dir_url in parent_urls: the listing is fetched and parsed and its .bsp
\* links are kept, or an exception of either is kept in the entry; the files
\* not configured are added to all_other
CrkLoop(t) ==
    /\ At(t, "check_remote_kernels", "loop")
    /\ Top(t).todo # <<>>
    /\ LET M == Top(t).arg
           dir_url == Head(Top(t).todo)
           configured == {KernelUrls[M][i].file : i \in 1..Len(KernelUrls[M])}
       IN  \/ \E links \in SUBSET SeqToSet(Links) :
                Continue(t, [Top(t) EXCEPT
                        !.todo = Tail(@),
                        !.directories = Append(@, Listed(dir_url, links)),
                        !.other = @ \cup (SeqToSet(BspFiles(links)) \ configured)], <<>>)
           \/ Continue(t, [Top(t) EXCEPT
                        !.todo = Tail(@),
                        !.directories = Append(@, Unlisted(dir_url))], <<>>)
    /\ UNCHANGED <<kernel_dir, tracking, pool, lock_owner, lock_depth, result, fixed, returned,
                   scraps, ops, furnsh_calls, logs>>

\* return {"mission", "configured_files", "directories", "other_files"}
CrkReturn(t) ==
    /\ At(t, "check_remote_kernels", "loop")
    /\ Top(t).todo = <<>>
    /\ LET M == Top(t).arg IN
       returned' = [returned EXCEPT ![t] =
            [mission |-> M,
             configured_files |-> {KernelUrls[M][i].file : i \in 1..Len(KernelUrls[M])},
             directories |-> Top(t).directories,
             other_files |-> SelectSeq(Links, LAMBDA l : l \in Top(t).other)]]
    /\ Return(t)
    /\ UNCHANGED <<kernel_dir, tracking, pool, lock_owner, lock_depth, fixed, scraps, ops,
                   furnsh_calls, logs>>

(***************************************************************************)
(* KernelManager.list_loaded and frames.transform_vector (between two      *)
(* library frames).                                                        *)
(***************************************************************************)
\* with self._lock: return [Path(k).name for k in sorted(self._loaded_kernels)]
LlList(t) ==
    /\ At(t, "list_loaded", "acquire")
    /\ CanAcquire(t)
    /\ returned' = [returned EXCEPT ![t] = ListOf(loaded_kernels)]
    /\ Return(t)
    /\ UNCHANGED <<kernel_dir, tracking, pool, lock_owner, lock_depth, fixed, scraps, ops,
                   furnsh_calls, logs>>

\* the frames spice.pxform knows
NativeFrames == {"J2000", "ECLIPJ2000"}

\* km.ensure_generic_kernels() has returned; with km.lock: spice.utc2et(time)
\* is entered
TvAcquire(t) ==
    /\ At(t, "transform_vector", "acquire")
    /\ Acquire(t)
    /\ Goto(t, "utc2et")
    /\ UNCHANGED <<kernel_dir, tracking, pool, result, fixed, returned, scraps, ops, furnsh_calls, logs>>

\* utc2et returns and the with block is left, or it raises
TvUtc2et(t) ==
    /\ At(t, "transform_vector", "utc2et")
    /\ IF HasLeapseconds
       THEN Release(t) /\ Goto(t, "acquire_pxform") /\ UNCHANGED result
       ELSE Raise(t, "SpiceError")
    /\ UNCHANGED <<kernel_dir, tracking, pool, fixed, returned, scraps, ops, furnsh_calls, logs>>

\* with km.lock: spice.pxform(src, dst, et) is entered
TvAcquirePxform(t) ==
    /\ At(t, "transform_vector", "acquire_pxform")
    /\ Acquire(t)
    /\ Goto(t, "pxform")
    /\ UNCHANGED <<kernel_dir, tracking, pool, result, fixed, returned, scraps, ops, furnsh_calls, logs>>

\* pxform returns and the vector is returned, or its exception becomes KeyError
TvPxform(t) ==
    /\ At(t, "transform_vector", "pxform")
    /\ IF {Top(t).arg.from_frame, Top(t).arg.to_frame} \subseteq NativeFrames
       THEN Release(t) /\ Return(t)
       ELSE Raise(t, "KeyError: cannot transform")
    /\ UNCHANGED <<kernel_dir, tracking, pool, fixed, returned, scraps, ops, furnsh_calls, logs>>

(***************************************************************************)
(* The client threads: an idle thread calls an operation.  The threads are *)
(* interchangeable, so the first call of a behaviour is t1's.              *)
(***************************************************************************)
\* the filename lists passed to delete_cached_files
DeleteInputs ==
    {<<"naif0012.tls">>, <<"160707AP_helios1_81272_86074.bsp", "de440s.bsp">>,
     <<"pck00011.tpc", "100528R_helios1_74345_81272.bsp">>}

\* the paths passed to load_kernel by a direct caller
LoadInputs == {"naif0012.tls", "./naif0012.tls"}

\* frame is the function called; calls are the calls it starts with
CallWith(t, frame, calls) ==
    /\ Idle(t)
    /\ t \in callers
    /\ t = "t1" \/ result["t1"].status # "none"
    /\ ops > 0
    /\ ops' = ops - 1
    /\ stack' = [stack EXCEPT ![t] = <<frame>> \o calls]
    /\ result' = [result EXCEPT ![t] = [op |-> frame.fn, arg |-> frame.arg,
                                        status |-> "running"]]
    /\ fetched' = [fetched EXCEPT ![t] = <<>>]
    /\ admitted' = [admitted EXCEPT ![t] = <<>>]
    /\ ensured' = [ensured EXCEPT ![t] = {}]
    /\ returned' = [returned EXCEPT ![t] = None]
    /\ UNCHANGED <<kernel_dir, tracking, pool, lock_owner, lock_depth, fixed, scraps,
                   furnsh_calls>>

Call(t, frame) == CallWith(t, frame, <<>>)

CallLoadKernel(t) ==
    \E p \in LoadInputs : Call(t, Frame("load_kernel", "acquire", p))

CallUnloadAll(t) == Call(t, Frame("unload_all", "acquire", ""))

\* an external caller of the lock property: "with km.lock: km.load_kernel(p)"
CallHeldLoadKernel(t) ==
    \E p \in LoadInputs : Call(t, Frame("with km.lock", "acquire", p))

\* the caller's with block is entered, and load_kernel is called in it
HeldAcquire(t) ==
    /\ At(t, "with km.lock", "acquire")
    /\ Acquire(t)
    /\ Continue(t, [Top(t) EXCEPT !.pc = "release"],
                <<Frame("load_kernel", "acquire", Top(t).arg)>>)
    /\ UNCHANGED <<kernel_dir, tracking, pool, result, fixed, returned, scraps, ops,
                   furnsh_calls, logs>>

\* load_kernel has returned, and the caller's with block ends
HeldRelease(t) ==
    /\ At(t, "with km.lock", "release")
    /\ Release(t)
    /\ Return(t)
    /\ UNCHANGED <<kernel_dir, tracking, pool, fixed, returned, scraps, ops, furnsh_calls,
                   logs>>

CallEnsureGeneric(t) == Call(t, Frame("ensure_generic_kernels", "check", ""))

CallEnsureMission(t) ==
    \E M \in MissionKeys : Call(t, Frame("ensure_mission_kernels", "check", M))

CallDeleteCachedFiles(t) ==
    \E names \in DeleteInputs : Call(t, DeleteFrame(names))

\* the mission keys passed to delete_mission_cache
CacheMissionInputs == {"GENERIC", "HELIOS_1", "ACE"}

\* the files passed to download_kernel by a direct caller: one cached, one of
\* zero size, one missing
DownloadInputs == {"de440s.bsp", "pck00011.tpc", "gm_de440.tpc"}

\* the file two threads download at once, and then load
ContendedInputs == {"seg_a.bsp"}

CallDownloadContended(t) ==
    \E f \in ContendedInputs : Call(t, Frame("download_kernel", "check", f))

CallLoadContended(t) ==
    \E f \in ContendedInputs : Call(t, Frame("load_kernel", "acquire", f))

CallGetCacheSizeBytes(t) == Call(t, CacheFrame("get_cache_size_bytes", ""))

CallGetCacheInfo(t) == Call(t, CacheFrame("get_cache_info", ""))

CallDeleteMissionCache(t) ==
    \E M \in CacheMissionInputs : Call(t, CacheFrame("delete_mission_cache", M))

\* the mission keys passed to delete_mission_cache on a full cache: the
\* generic set, a fixed-kernel mission, a segmented one, one without kernels
MissionCacheInputs == CacheMissionInputs \cup SEGMENTED_MISSIONS

CallDeleteMissionCacheOf(t) ==
    \E M \in MissionCacheInputs : Call(t, CacheFrame("delete_mission_cache", M))

\* the segment files a caller loads by path
CallLoadSegmentFile(t) ==
    \E f \in SegmentFiles : Call(t, Frame("load_kernel", "acquire", f))

\* purge_cache begins with self.unload_all()
CallPurgeCache(t) == CallWith(t, PurgeFrame, <<Frame("unload_all", "acquire", "")>>)

CallDownloadKernel(t) ==
    \E f \in DownloadInputs : Call(t, Frame("download_kernel", "check", f))

\* the days of the calendar
Dates == 1..MaxDate

\* the ranges of days, first day to last day
Ranges == {r \in Dates \X Dates : r[1] <= r[2]}

\* the segments a manifest may hold for a file: coverageStart <= coverageStop
Segments(file) == {Segment(file, r[1], r[2]) : r \in Ranges}

\* the manifests, sorted by coverageStart: empty, of one segment, of two
ManifestInputs ==
    {<<>>}
    \cup {<<x>> : x \in Segments("seg_a.bsp")}
    \cup {m \in {<<x, y>> : x \in Segments("seg_a.bsp"), y \in Segments("seg_b.bsp")} :
            m[1].start <= m[2].start}

\* the requests passed to ensure_segmented_kernels: a segmented mission with
\* every range of the calendar, and a mission that has no manifest
SegmentedInputs ==
    {SegmentedFrame("CASSINI", r[1], r[2]) : r \in Ranges}
    \cup {SegmentedFrame("ACE", 1, 1)}

CallEnsureSegmented(t) == \E frame \in SegmentedInputs : Call(t, frame)

\* the filename lists passed to delete_cached_files for segment files
SegmentDeleteInputs == {<<"seg_a.bsp">>}

CallDeleteSegmentFiles(t) ==
    \E names \in SegmentDeleteInputs : Call(t, DeleteFrame(names))

\* the names passed to _resolve_body by a direct caller
BodyInputs == {"VULCAN"}

\* target and observer of the queries
QueryInputs ==
    {[target |-> "HELIOS_1", observer |-> "SUN"],
     [target |-> "CERES", observer |-> "SUN"]}

\* the requests passed to get_trajectory: the span and the step in seconds
TrajectoryInputs ==
    {[target |-> "HELIOS_1", observer |-> "SUN", include_velocity |-> (n = 0),
      span |-> n, step_s |-> 1] : n \in 0..MaxSpan}

\* the time spans of the grids computed, in seconds: end before start, none,
\* multiples of 25,000 s, and the spans around the cap
SpanInputs ==
    {k * 25000 : k \in -1..MaxSpanUnits}
        \cup {GridCap - 2, GridCap - 1, GridCap, 2 * GridCap - 1}

\* the steps: one or two days, hours, minutes, seconds, or a bare number
StepInputs == {[value |-> v, unit |-> u] : v \in {1, 2}, u \in {"d", "h", "m", "s", ""}}

\* queries for a segmented mission: the point queries' and get_trajectory's
SegmentedQueryInputs == {[target |-> "CASSINI", observer |-> "SUN"]}

SegmentedTrajectoryInputs ==
    {[target |-> "CASSINI", observer |-> "SUN", include_velocity |-> FALSE,
      span |-> 1, step_s |-> 1]}

\* the keys passed to _ensure_kernels by a direct caller: a segmented mission,
\* a fixed-kernel mission, a mission without kernels
EnsureKernelsInputs ==
    {[target |-> k, observer |-> "SUN"] : k \in {"CASSINI", "HELIOS_1", "ACE"}}

\* _resolve_body(target), _resolve_body(observer)
ResolveBodies(q) == <<Frame("_resolve_body", "start", q.observer),
                      Frame("_resolve_body", "start", q.target)>>

CallResolveBody(t) ==
    \E name \in BodyInputs : Call(t, Frame("_resolve_body", "start", name))

CallGetPosition(t) ==
    \E q \in QueryInputs : CallWith(t, Frame("get_position", "ensure", q), ResolveBodies(q))

CallGetState(t) ==
    \E q \in QueryInputs : CallWith(t, Frame("get_state", "ensure", q), ResolveBodies(q))

CallGetTrajectory(t) ==
    \E q \in TrajectoryInputs : CallWith(t, TrajectoryFrame(q), ResolveBodies(q))

CallQuerySegmented(t) ==
    \/ \E q \in SegmentedQueryInputs, fn \in PointQueries :
            CallWith(t, Frame(fn, "ensure", q), ResolveBodies(q))
    \/ \E q \in SegmentedTrajectoryInputs :
            CallWith(t, TrajectoryFrame(q), ResolveBodies(q))

CallEnsureKernels(t) ==
    \E q \in EnsureKernelsInputs : Call(t, Frame("_ensure_kernels", "ensure", q))

\* the mission keys passed to check_remote_kernels: a fixed-kernel mission,
\* the entry with two directories, a segmented mission, one without kernels
RemoteInputs == {"HELIOS_1", "TWO_DIRS", "CASSINI", "ACE"}

CallCheckRemoteKernels(t) ==
    \E M \in RemoteInputs : Call(t, RemoteFrame(M))

(***************************************************************************)
(* server.py: the tools.  A tool calls into the library and returns a dict *)
(* with a status; result[t] is the tool's call, and its status is that of  *)
(* the library calls until the tool itself returns or raises.              *)
(***************************************************************************)
ToolNames ==
    {"get_spacecraft_position", "get_spacecraft_trajectory", "get_spacecraft_velocity",
     "compute_distance", "transform_coordinates", "list_spice_missions", "manage_kernels"}

\* the arguments passed to each tool
ToolInputs(tool) ==
    CASE tool = "get_spacecraft_position" -> QueryInputs
      [] tool \in {"get_spacecraft_trajectory", "compute_distance"} ->
            {[target |-> "HELIOS_1", observer |-> "SUN", include_velocity |-> FALSE,
              span |-> 1, step_s |-> 1]}
      [] tool = "get_spacecraft_velocity" ->
            {[target |-> "HELIOS_1", observer |-> "SUN", include_velocity |-> TRUE,
              span |-> 1, step_s |-> 1]}
      [] tool = "transform_coordinates" ->
            {[from_frame |-> "J2000", to_frame |-> f] : f \in {"ECLIPJ2000", "NOFRAME"}}
      [] tool = "list_spice_missions" -> {[action |-> "", mission |-> ""]}
      [] tool = "manage_kernels" ->
            {[action |-> a, mission |-> ""] :
                a \in {"status", "download", "load", "unload_all", "cache_size", "reset"}}
            \cup {[action |-> a, mission |-> m] :
                    a \in {"download", "load"}, m \in {"HELIOS_1", "ACE", "VULCAN"}}

\* the tool's library calls are inside "try: ... except Exception as e"
InTry(tool, arg) ==
    CASE tool = "list_spice_missions" -> FALSE
      [] tool = "manage_kernels" -> arg.action \in {"download", "load"}
      [] OTHER -> TRUE

\* the mission key resolve_mission gives, where it gives one
KeyOf(mission) ==
    LET r == resolve_mission(BodyText[mission])
    IN  IF "key" \in DOMAIN r THEN r.key ELSE mission

\* the library calls of a tool, the last of them first; none where the tool
\* returns without calling the library
ToolCalls(tool, arg) ==
    CASE tool = "get_spacecraft_position" ->
            <<Frame("get_position", "ensure", arg)>> \o ResolveBodies(arg)
      [] tool \in {"get_spacecraft_trajectory", "get_spacecraft_velocity",
                   "compute_distance"} ->
            <<TrajectoryFrame(arg)>> \o ResolveBodies(arg)
      [] tool = "transform_coordinates" ->
            <<Frame("transform_vector", "acquire", arg),
              Frame("ensure_generic_kernels", "check", "")>>
      [] tool = "list_spice_missions" -> <<Frame("list_loaded", "acquire", "")>>
      [] tool = "manage_kernels" ->
            CASE arg.action = "status" ->
                    <<CacheFrame("get_cache_info", ""), Frame("list_loaded", "acquire", "")>>
              [] arg.action \in {"download", "load"} /\ arg.mission # "" ->
                    <<Frame("list_loaded", "acquire", ""),
                      Frame("ensure_mission_kernels", "check", KeyOf(arg.mission)),
                      Frame("resolve_mission", "call", BodyText[arg.mission])>>
              [] arg.action = "unload_all" -> <<Frame("unload_all", "acquire", "")>>
              [] arg.action = "cache_size" -> <<CacheFrame("get_cache_info", "")>>
              [] OTHER -> <<>>

\* the caller of the tools has no tool call under way
ToolIdle(t) == Idle(t) /\ result[t].status \in {"none", "returned", "raised"}

\* a tool is called: it enters its library calls, or, for manage_kernels
\* without the mission it needs or with an unknown action, returns an error
ToolCall(t) ==
    \E tool \in ToolNames : \E arg \in ToolInputs(tool) :
        /\ ToolIdle(t)
        /\ t \in callers
        /\ ops > 0
        /\ ops' = ops - 1
        /\ stack' = [stack EXCEPT ![t] = ToolCalls(tool, arg)]
        /\ IF ToolCalls(tool, arg) = <<>>
           THEN /\ result' = [result EXCEPT ![t] =
                        [op |-> tool, arg |-> arg, status |-> "returned"]]
                /\ returned' = [returned EXCEPT ![t] =
                        [status |-> "error", message |-> "mission required or unknown action"]]
           ELSE /\ result' = [result EXCEPT ![t] =
                        [op |-> tool, arg |-> arg, status |-> "running"]]
                /\ returned' = [returned EXCEPT ![t] = None]
        /\ fetched' = [fetched EXCEPT ![t] = <<>>]
        /\ admitted' = [admitted EXCEPT ![t] = <<>>]
        /\ ensured' = [ensured EXCEPT ![t] = {}]
        /\ UNCHANGED <<kernel_dir, tracking, pool, lock_owner, lock_depth, fixed, scraps,
                       furnsh_calls>>

\* the library calls of a tool are over: the tool returns its success dict, or
\* its except clause returns the error dict, or, the call being outside any
\* try block, the exception leaves the tool
ToolEnd(t) ==
    /\ Idle(t)
    /\ result[t].op \in ToolNames
    /\ result[t].status \notin {"none", "running", "returned", "raised"}
    /\ IF result[t].status = "ok"
       THEN /\ returned' = [returned EXCEPT ![t] = [status |-> "success"]]
            /\ Ends(t, "returned")
       ELSE IF InTry(result[t].op, result[t].arg)
       THEN /\ returned' = [returned EXCEPT ![t] =
                    [status |-> "error", message |-> result[t].status]]
            /\ Ends(t, "returned")
       ELSE /\ Ends(t, "raised")
            /\ UNCHANGED returned
    /\ UNCHANGED <<kernel_dir, tracking, pool, lock_owner, lock_depth, stack, fixed, scraps, ops,
                   furnsh_calls, logs>>

(***************************************************************************)
(* The kernel manager after construction, with an empty cache directory,   *)
(* under concurrent callers (Spec) and under a single caller (SpecSeq);    *)
(* and the query layer over a cache directory an earlier process has       *)
(* filled, under concurrent callers (SpecQuery).                           *)
(***************************************************************************)
Constructed ==
    /\ kernel_dir = {}
    /\ empty_files = {}
    /\ tmp_dir = {}
    /\ chunks = [n \in Files \cup TmpNames |-> IF n \in kernel_dir THEN AllChunks(n) ELSE {}]
    /\ fd = [t \in Threads |-> Closed]
    /\ manifest = SAMPLE_MANIFEST
    /\ loaded_kernels = {}
    /\ generic_loaded = FALSE
    /\ mission_kernels_loaded = {}
    /\ segmented_files_loaded = {}
    /\ pool = [f \in Files |-> 0]
    /\ lock_owner = NoThread
    /\ lock_depth = 0
    /\ stack = [t \in Threads |-> <<>>]
    /\ result = [t \in Threads |-> NoCall]
    /\ returned = [t \in Threads |-> None]
    /\ furnsh_calls = [f \in Files |-> 0]
    /\ fetched = [t \in Threads |-> <<>>]
    /\ admitted = [t \in Threads |-> <<>>]
    /\ ensured = [t \in Threads |-> {}]

Init == Constructed /\ callers = Threads /\ ops = MaxOps

InitSeq == Constructed /\ callers = {"t1"} /\ ops = MaxSeqOps

\* the cache directory of an earlier process: all but one file downloaded
InitQuery ==
    /\ kernel_dir = FixedFiles \ {"160707AP_helios1_81272_86074.bsp"}
    /\ empty_files = {}
    /\ tmp_dir = {}
    /\ chunks = [n \in Files \cup TmpNames |-> IF n \in kernel_dir THEN AllChunks(n) ELSE {}]
    /\ fd = [t \in Threads |-> Closed]
    /\ manifest = SAMPLE_MANIFEST
    /\ loaded_kernels = {}
    /\ generic_loaded = FALSE
    /\ mission_kernels_loaded = {}
    /\ segmented_files_loaded = {}
    /\ pool = [f \in Files |-> 0]
    /\ lock_owner = NoThread
    /\ lock_depth = 0
    /\ stack = [t \in Threads |-> <<>>]
    /\ result = [t \in Threads |-> NoCall]
    /\ returned = [t \in Threads |-> None]
    /\ furnsh_calls = [f \in Files |-> 0]
    /\ fetched = [t \in Threads |-> <<>>]
    /\ admitted = [t \in Threads |-> <<>>]
    /\ ensured = [t \in Threads |-> {}]
    /\ callers = Threads
    /\ ops = MaxQueryOps

\* a manager with a segmented mission's manifest, over a cache directory that
\* holds the generic kernels, under a single caller
InitSeg ==
    /\ kernel_dir = GENERIC_KERNELS
    /\ empty_files = {}
    /\ tmp_dir = {}
    /\ chunks = [n \in Files \cup TmpNames |-> IF n \in kernel_dir THEN AllChunks(n) ELSE {}]
    /\ fd = [t \in Threads |-> Closed]
    /\ manifest \in ManifestInputs
    /\ loaded_kernels = {}
    /\ generic_loaded = FALSE
    /\ mission_kernels_loaded = {}
    /\ segmented_files_loaded = {}
    /\ pool = [f \in Files |-> 0]
    /\ lock_owner = NoThread
    /\ lock_depth = 0
    /\ stack = [t \in Threads |-> <<>>]
    /\ result = [t \in Threads |-> NoCall]
    /\ returned = [t \in Threads |-> None]
    /\ furnsh_calls = [f \in Files |-> 0]
    /\ fetched = [t \in Threads |-> <<>>]
    /\ admitted = [t \in Threads |-> <<>>]
    /\ ensured = [t \in Threads |-> {}]
    /\ callers = {"t1"}
    /\ ops = MaxSegOps

\* the cache directory an earlier session left: some kernels, one of them a
\* zero-size file
Warm ==
    /\ kernel_dir = {"naif0012.tls", "de440s.bsp", "100528R_helios1_74345_81272.bsp",
                     "seg_a.bsp"}
    /\ empty_files = {"pck00011.tpc"}
    /\ tmp_dir = {}
    /\ chunks = [n \in Files \cup TmpNames |-> IF n \in kernel_dir THEN AllChunks(n) ELSE {}]
    /\ fd = [t \in Threads |-> Closed]
    /\ manifest = SAMPLE_MANIFEST
    /\ loaded_kernels = {}
    /\ generic_loaded = FALSE
    /\ mission_kernels_loaded = {}
    /\ segmented_files_loaded = {}
    /\ pool = [f \in Files |-> 0]
    /\ lock_owner = NoThread
    /\ lock_depth = 0
    /\ stack = [t \in Threads |-> <<>>]
    /\ result = [t \in Threads |-> NoCall]
    /\ returned = [t \in Threads |-> None]
    /\ furnsh_calls = [f \in Files |-> 0]
    /\ fetched = [t \in Threads |-> <<>>]
    /\ admitted = [t \in Threads |-> <<>>]
    /\ ensured = [t \in Threads |-> {}]

InitCache == Warm /\ callers = Threads /\ ops = MaxCacheOps

InitCacheSeq == Warm /\ callers = {"t1"} /\ ops = MaxCacheSeqOps

InitDownload == Constructed /\ callers = Threads /\ ops = MaxDownloadOps

InitEntry == Constructed /\ callers = {"t1"} /\ ops = MaxEntryOps

\* a session in which ensure_mission_kernels has cached and loaded the generic
\* kernels and the mission's kernels; no segment file is cached
Loaded ==
    /\ kernel_dir = FixedFiles
    /\ empty_files = {}
    /\ tmp_dir = {}
    /\ chunks = [n \in Files \cup TmpNames |-> IF n \in kernel_dir THEN AllChunks(n) ELSE {}]
    /\ fd = [t \in Threads |-> Closed]
    /\ manifest = SAMPLE_MANIFEST
    /\ loaded_kernels = FixedFiles
    /\ generic_loaded = TRUE
    /\ mission_kernels_loaded = DOMAIN MISSION_KERNELS
    /\ segmented_files_loaded = {}
    /\ pool = [f \in Files |-> IF f \in FixedFiles THEN 1 ELSE 0]
    /\ lock_owner = NoThread
    /\ lock_depth = 0
    /\ stack = [t \in Threads |-> <<>>]
    /\ result = [t \in Threads |-> NoCall]
    /\ returned = [t \in Threads |-> None]
    /\ furnsh_calls = [f \in Files |-> IF f \in FixedFiles THEN 1 ELSE 0]
    /\ fetched = [t \in Threads |-> <<>>]
    /\ admitted = [t \in Threads |-> <<>>]
    /\ ensured = [t \in Threads |-> {}]

InitStall == Loaded /\ callers = Threads /\ ops = MaxStallOps

InitTool == Loaded /\ callers = Threads /\ ops = MaxToolOps

InitRemote == Loaded /\ callers = {"t1"} /\ ops = MaxRemoteOps

\* a session that has loaded the generic and the mission kernels, on a cache
\* directory that also holds both segment files and a temporary file an
\* interrupted download left; the manifest names only the first segment file
InitMissionCache ==
    /\ kernel_dir = Files
    /\ empty_files = {}
    /\ tmp_dir = {"de440s.tmp"}
    /\ chunks = [n \in Files \cup TmpNames |->
                    IF n \in kernel_dir THEN AllChunks(n)
                    ELSE IF n \in tmp_dir THEN {1} ELSE {}]
    /\ fd = [t \in Threads |-> Closed]
    /\ manifest = <<Segment("seg_a.bsp", 1, 2)>>
    /\ loaded_kernels = FixedFiles
    /\ generic_loaded = TRUE
    /\ mission_kernels_loaded = DOMAIN MISSION_KERNELS
    /\ segmented_files_loaded = {}
    /\ pool = [f \in Files |-> IF f \in FixedFiles THEN 1 ELSE 0]
    /\ lock_owner = NoThread
    /\ lock_depth = 0
    /\ stack = [t \in Threads |-> <<>>]
    /\ result = [t \in Threads |-> NoCall]
    /\ returned = [t \in Threads |-> None]
    /\ furnsh_calls = [f \in Files |-> IF f \in FixedFiles THEN 1 ELSE 0]
    /\ fetched = [t \in Threads |-> <<>>]
    /\ admitted = [t \in Threads |-> <<>>]
    /\ ensured = [t \in Threads |-> {}]
    /\ callers = {"t1"}
    /\ ops = MaxMissionCacheOps

\* a fresh session in which the caller has passed a name to resolve_mission
InitResolve ==
    /\ kernel_dir = {}
    /\ empty_files = {}
    /\ tmp_dir = {}
    /\ chunks = [n \in Files \cup TmpNames |-> {}]
    /\ fd = [t \in Threads |-> Closed]
    /\ manifest = SAMPLE_MANIFEST
    /\ loaded_kernels = {}
    /\ generic_loaded = FALSE
    /\ mission_kernels_loaded = {}
    /\ segmented_files_loaded = {}
    /\ pool = [f \in Files |-> 0]
    /\ lock_owner = NoThread
    /\ lock_depth = 0
    /\ \E name \in NameInputs :
        /\ stack = [t \in Threads |->
                      IF t = "t1" THEN <<Frame("resolve_mission", "call", name)>> ELSE <<>>]
        /\ result = [t \in Threads |->
                      IF t = "t1"
                      THEN [op |-> "resolve_mission", arg |-> name, status |-> "running"]
                      ELSE NoCall]
    /\ returned = [t \in Threads |-> None]
    /\ furnsh_calls = [f \in Files |-> 0]
    /\ fetched = [t \in Threads |-> <<>>]
    /\ admitted = [t \in Threads |-> <<>>]
    /\ ensured = [t \in Threads |-> {}]
    /\ callers = {"t1"}
    /\ ops = 0

\* a step inside kernel_manager.py
KernelStep(t) ==
    \/ DlCheck(t) \/ DlFetch(t) \/ DlRename(t)
    \/ LkEnter(t) \/ LkFurnsh(t)
    \/ UaAcquire(t) \/ UaKclear(t) \/ UaGeneric(t) \/ UaMission(t) \/ UaSegmented(t)
    \/ EgCheck(t) \/ EgSet(t)
    \/ EmCheck(t) \/ EmLookup(t) \/ EmAdd(t)
    \/ DcAcquire(t) \/ DcLoop(t) \/ DcUnload(t) \/ DcSegDiscard(t) \/ DcUnlink(t)
    \/ DcInvalidate(t) \/ DcInvGeneric(t)

\* a step inside ephemeris.py
QueryStep(t) ==
    \/ RbStart(t) \/ RbAcquire(t) \/ RbBodn2c(t)
    \/ QEnsure(t) \/ QAcquire(t) \/ QUtc2et(t) \/ QSpk(t)
    \/ TrEnsure(t) \/ TrAcquire(t) \/ TrUtc2etStart(t) \/ TrUtc2etEnd(t)
    \/ TrAcquireGrid(t) \/ TrSpk(t) \/ TrEt2utc(t)

\* the callers of the kernel manager
Step(t) ==
    \/ CallLoadKernel(t) \/ CallUnloadAll(t) \/ CallEnsureGeneric(t)
    \/ CallEnsureMission(t) \/ CallDeleteCachedFiles(t)
    \/ KernelStep(t)

\* the callers of the query layer, beside callers of load_kernel, unload_all
\* and delete_cached_files
StepQuery(t) ==
    \/ CallResolveBody(t) \/ CallGetPosition(t) \/ CallGetState(t)
    \/ CallGetTrajectory(t)
    \/ CallLoadKernel(t) \/ CallUnloadAll(t) \/ CallDeleteCachedFiles(t)
    \/ KernelStep(t) \/ QueryStep(t)

NextQuery == \E t \in Threads : StepQuery(t)

\* the caller of ensure_segmented_kernels, of unload_all and of
\* delete_cached_files, and the steps of these
StepSeg(t) ==
    \/ CallEnsureSegmented(t) \/ CallUnloadAll(t) \/ CallDeleteSegmentFiles(t)
    \/ EsStart(t) \/ EsSelect(t) \/ EsLoop(t) \/ EsAdd(t)
    \/ DlCheck(t) \/ DlFetch(t) \/ DlRename(t)
    \/ LkEnter(t) \/ LkFurnsh(t)
    \/ UaAcquire(t) \/ UaKclear(t) \/ UaGeneric(t) \/ UaMission(t) \/ UaSegmented(t)
    \/ EgCheck(t) \/ EgSet(t)
    \/ DcAcquire(t) \/ DcLoop(t) \/ DcUnload(t) \/ DcSegDiscard(t) \/ DcUnlink(t)
    \/ DcInvalidate(t) \/ DcInvGeneric(t)

NextSeg == \E t \in Threads : StepSeg(t)

\* the callers of the cache bookkeeping, of download_kernel and of
\* ensure_generic_kernels, and the steps of these
StepCache(t) ==
    \/ CallGetCacheSizeBytes(t) \/ CallGetCacheInfo(t) \/ CallDeleteMissionCache(t)
    \/ CallPurgeCache(t) \/ CallDownloadKernel(t) \/ CallEnsureGeneric(t)
    \/ GcsList(t) \/ GcsTotal(t) \/ GciList(t) \/ GciReport(t)
    \/ DmcSelect(t) \/ PcList(t) \/ PcLoop(t)
    \/ DlCheck(t) \/ DlFetch(t) \/ DlRename(t)
    \/ LkEnter(t) \/ LkFurnsh(t)
    \/ UaAcquire(t) \/ UaKclear(t) \/ UaGeneric(t) \/ UaMission(t) \/ UaSegmented(t)
    \/ EgCheck(t) \/ EgSet(t)
    \/ DcAcquire(t) \/ DcLoop(t) \/ DcUnload(t) \/ DcSegDiscard(t) \/ DcUnlink(t)
    \/ DcInvalidate(t) \/ DcInvGeneric(t)

\* the callers of download_kernel and of load_kernel for one file name, and
\* the steps of these, download_kernel statement by statement
StepDownload(t) ==
    \/ CallDownloadContended(t) \/ CallLoadContended(t)
    \/ DlCheck(t) \/ DlGet(t) \/ DlOpen(t) \/ DlWrite(t) \/ DlReplace(t)
    \/ LkEnter(t) \/ LkFurnsh(t)

NextDownload == \E t \in Threads : StepDownload(t)

NextCache == \E t \in Threads : StepCache(t)

Next == \E t \in Threads : Step(t)

Spec == Init /\ [][Next]_vars

SpecSeq == InitSeq /\ [][Next]_vars

SpecQuery == InitQuery /\ [][NextQuery]_vars

SpecSeg == InitSeg /\ [][NextSeg]_vars

\* the cache bookkeeping under two threads
SpecCache == InitCache /\ [][NextCache]_vars

\* and under one
SpecCacheSeq == InitCacheSeq /\ [][NextCache]_vars

\* one thread calling the operations that write the flags and the loaded
\* set, in any order
StepFlags(t) ==
    \/ CallEnsureGeneric(t) \/ CallEnsureMission(t) \/ CallEnsureSegmented(t)
    \/ CallLoadKernel(t) \/ CallUnloadAll(t) \/ CallDeleteCachedFiles(t)
    \/ CallDeleteMissionCache(t) \/ CallPurgeCache(t)
    \/ KernelStep(t)
    \/ EsStart(t) \/ EsSelect(t) \/ EsLoop(t) \/ EsAdd(t)
    \/ DmcSelect(t) \/ PcList(t) \/ PcLoop(t)

NextFlags == \E t \in Threads : StepFlags(t)

InitFlags == Constructed /\ callers = {"t1"} /\ ops = MaxFlagOps

SpecFlags == InitFlags /\ [][NextFlags]_vars

\* two threads on the cache an earlier session left, calling the operations
\* that admit kernels and the ones that evict them
StepEvict(t) ==
    \/ CallLoadKernel(t) \/ CallEnsureGeneric(t) \/ CallEnsureMission(t)
    \/ CallUnloadAll(t) \/ CallDeleteCachedFiles(t) \/ CallPurgeCache(t)
    \/ KernelStep(t) \/ PcList(t) \/ PcLoop(t)

NextEvict == \E t \in Threads : StepEvict(t)

InitEvict == Warm /\ callers = Threads /\ ops = MaxEvictOps

SpecEvict == InitEvict /\ [][NextEvict]_vars

\* the thread that ensures kernels and the thread that evicts them
Ensurer == "t1"
Evictor == "t2"

\* one thread calls ensure_generic_kernels, ensure_mission_kernels or
\* ensure_segmented_kernels while the other calls unload_all or
\* delete_cached_files
StepRace(t) ==
    \/ t = Ensurer /\ (CallEnsureGeneric(t) \/ CallEnsureMission(t) \/ CallEnsureSegmented(t))
    \/ t = Evictor /\ (CallUnloadAll(t) \/ CallDeleteCachedFiles(t))
    \/ KernelStep(t)
    \/ EsStart(t) \/ EsSelect(t) \/ EsLoop(t) \/ EsAdd(t)

NextRace == \E t \in Threads : StepRace(t)

InitRace == Warm /\ callers = Threads /\ ops = MaxRaceOps

SpecRace == InitRace /\ [][NextRace]_vars

\* every entry point that may download: the three ensure operations, the body
\* resolution and the three queries, with download_kernel statement by
\* statement
StepEntry(t) ==
    \/ CallEnsureGeneric(t) \/ CallEnsureMission(t) \/ CallEnsureSegmented(t)
    \/ CallResolveBody(t) \/ CallGetPosition(t) \/ CallGetState(t)
    \/ CallGetTrajectory(t) \/ CallQuerySegmented(t) \/ CallEnsureKernels(t)
    \/ DlCheck(t) \/ DlGet(t) \/ DlOpen(t) \/ DlWrite(t) \/ DlReplace(t)
    \/ LkEnter(t) \/ LkFurnsh(t)
    \/ EgCheck(t) \/ EgSet(t)
    \/ EmCheck(t) \/ EmLookup(t) \/ EmAdd(t)
    \/ EsStart(t) \/ EsSelect(t) \/ EsLoop(t) \/ EsAdd(t)
    \/ EkEnsure(t) \/ EkReturn(t)
    \/ QueryStep(t)

NextEntry == \E t \in Threads : StepEntry(t)

\* the entry points over an empty cache directory
SpecEntry == InitEntry /\ [][NextEntry]_vars

\* the thread whose download may hang, and the thread that loads and queries
Downloader == "t1"
Reader == "t2"

\* the downloader calls download_kernel and ensure_segmented_kernels for files
\* that are not cached; the reader calls load_kernel and the queries for
\* kernels that are cached and loaded (ensure_generic_kernels and
\* ensure_mission_kernels return at their flags)
StepStall(t) ==
    \/ t = Downloader /\ (CallDownloadContended(t) \/ CallEnsureSegmented(t))
    \/ t = Reader /\ (CallLoadKernel(t) \/ CallGetPosition(t) \/ CallGetState(t)
                      \/ CallGetTrajectory(t))
    \/ DlCheck(t) \/ DlGet(t) \/ DlOpen(t) \/ DlWrite(t) \/ DlReplace(t)
    \/ LkEnter(t) \/ LkFurnsh(t)
    \/ EgCheck(t) \/ EmCheck(t)
    \/ EsStart(t) \/ EsSelect(t) \/ EsLoop(t) \/ EsAdd(t)
    \/ QueryStep(t)

NextStall == \E t \in Threads : StepStall(t)

\* a thread is in the part of download_kernel that waits for the network or
\* the disk: the request, the open, a write, the rename
Stalls(t) == ~Idle(t) /\ Top(t).fn = "download_kernel" /\ Top(t).pc # "check"

\* the scheduler runs every thread that can take a step, but the request and
\* the transfer of a download may take forever
FairButStalls == \A t \in Threads : WF_vars(StepStall(t) /\ ~Stalls(t))

SpecStall == InitStall /\ [][NextStall]_vars /\ FairButStalls

\* two threads on the cache an earlier session left, each calling
\* load_kernel (alone, and inside a caller's own "with km.lock"), unload_all
\* and _resolve_body (which calls ensure_generic_kernels before it takes the
\* lock)
InitLock == Warm /\ callers = Threads /\ ops = MaxLockOps

\* the steps of a thread that is inside a call
RunLock(t) ==
    \/ HeldAcquire(t) \/ HeldRelease(t)
    \/ LkEnter(t) \/ LkFurnsh(t)
    \/ UaAcquire(t) \/ UaKclear(t) \/ UaGeneric(t) \/ UaMission(t) \/ UaSegmented(t)
    \/ EgCheck(t) \/ EgSet(t) \/ DlCheck(t) \/ DlFetch(t) \/ DlRename(t)
    \/ RbStart(t) \/ RbAcquire(t) \/ RbBodn2c(t)

StepLock(t) ==
    \/ CallLoadKernel(t) \/ CallHeldLoadKernel(t) \/ CallUnloadAll(t)
    \/ CallResolveBody(t)
    \/ RunLock(t)

NextLock == \E t \in Threads : StepLock(t)

\* the scheduler runs every thread that is inside a call and can take a step,
\* and every primitive of the shared context ends; whether a thread makes a
\* call is its own choice
FairLock == \A t \in Threads : WF_vars(RunLock(t))

SpecLock == InitLock /\ [][NextLock]_vars /\ FairLock

\* a session in which get_trajectory has the start and end times of a request
\* and comes to its grid
InitGrid ==
    /\ kernel_dir = {}
    /\ empty_files = {}
    /\ tmp_dir = {}
    /\ chunks = [n \in Files \cup TmpNames |-> {}]
    /\ fd = [t \in Threads |-> Closed]
    /\ manifest = SAMPLE_MANIFEST
    /\ loaded_kernels = {}
    /\ generic_loaded = FALSE
    /\ mission_kernels_loaded = {}
    /\ segmented_files_loaded = {}
    /\ pool = [f \in Files |-> 0]
    /\ lock_owner = NoThread
    /\ lock_depth = 0
    /\ \E span \in SpanInputs, step \in StepInputs :
        LET q == [span |-> span, step |-> step] IN
        /\ stack = [t \in Threads |->
                      IF t = "t1" THEN <<Frame("get_trajectory", "n_steps", q)>> ELSE <<>>]
        /\ result = [t \in Threads |->
                      IF t = "t1"
                      THEN [op |-> "get_trajectory", arg |-> q, status |-> "running"]
                      ELSE NoCall]
    /\ returned = [t \in Threads |-> None]
    /\ furnsh_calls = [f \in Files |-> 0]
    /\ fetched = [t \in Threads |-> <<>>]
    /\ admitted = [t \in Threads |-> <<>>]
    /\ ensured = [t \in Threads |-> {}]
    /\ callers = {"t1"}
    /\ ops = 0

NextGrid == \E t \in Threads : TrGrid(t)

\* the grid of get_trajectory for each span and step
SpecGrid == InitGrid /\ [][NextGrid]_vars

NextResolve == \E t \in Threads : RmCall(t)

\* resolve_mission applied to each name
SpecResolve == InitResolve /\ [][NextResolve]_vars

\* the caller of delete_mission_cache and of load_kernel, and their steps
StepMissionCache(t) ==
    \/ CallDeleteMissionCacheOf(t) \/ CallLoadSegmentFile(t)
    \/ LkEnter(t) \/ LkFurnsh(t)
    \/ DmcSelect(t)
    \/ DcAcquire(t) \/ DcLoop(t) \/ DcUnload(t) \/ DcSegDiscard(t) \/ DcUnlink(t)
    \/ DcInvalidate(t) \/ DcInvGeneric(t)

NextMissionCache == \E t \in Threads : StepMissionCache(t)

SpecMissionCache == InitMissionCache /\ [][NextMissionCache]_vars

\* the caller of get_cache_info, delete_mission_cache and load_kernel
StepCacheInfo(t) ==
    \/ CallGetCacheInfo(t) \/ GciList(t) \/ GciReport(t)
    \/ StepMissionCache(t)

NextCacheInfo == \E t \in Threads : StepCacheInfo(t)

\* get_cache_info on a cache directory that holds generic, mission, segment,
\* unmapped and temporary files, before and after deletions
SpecCacheInfo == InitMissionCache /\ [][NextCacheInfo]_vars

\* the first thread calls the tools of the server; the second purges the
\* cache, deletes cached files or unloads everything
StepTool(t) ==
    \/ t = "t1" /\ (ToolCall(t) \/ ToolEnd(t))
    \/ t = "t2" /\ (CallPurgeCache(t) \/ CallUnloadAll(t) \/ CallDeleteCachedFiles(t))
    \/ KernelStep(t) \/ QueryStep(t)
    \/ GciList(t) \/ GciReport(t) \/ PcList(t) \/ PcLoop(t)
    \/ LlList(t) \/ RmCall(t)
    \/ TvAcquire(t) \/ TvUtc2et(t) \/ TvAcquirePxform(t) \/ TvPxform(t)

NextTool == \E t \in Threads : StepTool(t)

SpecTool == InitTool /\ [][NextTool]_vars

\* the caller of check_remote_kernels and its steps
StepRemote(t) ==
    CallCheckRemoteKernels(t) \/ CrkStart(t) \/ CrkLoop(t) \/ CrkReturn(t)

NextRemote == \E t \in Threads : StepRemote(t)

SpecRemote == InitRemote /\ [][NextRemote]_vars

\* two threads that download and load the same file
SpecDownload == InitDownload /\ [][NextDownload]_vars

(***************************************************************************)
(* Properties.                                                             *)
(***************************************************************************)
InFn(t, fn) == ~Idle(t) /\ Top(t).fn = fn

\* the step is one of thread t
Steps(t) == stack'[t] # stack[t]

\* the step ends t's call with a return
Returns(t) == result[t].status = "running" /\ result'[t].status = "ok"

\* the step ends t's call with an exception
Fails(t) == result[t].status = "running" /\ result'[t].status \notin {"running", "ok"}

NothingFurnished == [f \in Files |-> 0]

\* C1: load_kernel is idempotent per canonical path: between two evictions of
\* a path (kclear in unload_all and purge_cache, the discard in
\* delete_cached_files) furnsh succeeds for it at most once, and exactly once
\* while it is in loaded_kernels, however many threads call load_kernel and
\* under whichever spelling; a call on a loaded path changes nothing.
LoadKernelIdempotent ==
    /\ [](\A k \in Files :
            /\ furnsh_calls[k] <= 1
            /\ k \in loaded_kernels => furnsh_calls[k] = 1)
    /\ [][\A t \in Threads :
            (LkEnter(t) /\ Resolve(Top(t).arg) \in loaded_kernels)
                => UNCHANGED <<kernel_dir, tracking, pool, furnsh_calls,
                               lock_owner, lock_depth>>]_vars

\* a direct load_kernel call has returned without a furnsh: its path, spelled
\* otherwise, was loaded already
LoadKernelRepeated ==
    \E t \in Threads :
        /\ result[t].op = "load_kernel" /\ result[t].status = "ok"
        /\ result[t].arg # Resolve(result[t].arg)
        /\ admitted[t] = <<>>
        /\ furnsh_calls[Resolve(result[t].arg)] = 1

\* the shared-context primitives: a thread is inside one while its top frame
\* is at the statement that calls it
Primitives ==
    {"furnsh", "kclear", "unload", "utc2et", "utc2et_start", "utc2et_end",
     "et2utc", "spkpos", "spkezr", "bodn2c"}

InPrimitive(t) == ~Idle(t) /\ Top(t).pc \in Primitives

\* C2: at most one thread at a time is inside a primitive of the shared
\* context (furnsh, kclear, unload, utc2et, et2utc, spkpos, spkezr, bodn2c),
\* and a thread inside one holds the lock, under every interleaving of
\* load_kernel, unload_all, delete_cached_files, _resolve_body, get_position,
\* get_state and get_trajectory.
PrimitivesSerialized ==
    /\ Cardinality({t \in Threads : InPrimitive(t)}) <= 1
    /\ \A t \in Threads : InPrimitive(t) => lock_owner = t /\ lock_depth >= 1

\* one thread is inside a primitive of a query while the other waits for the
\* lock at another operation's "with self._lock"
PrimitiveContended ==
    \E t, u \in Threads :
        /\ t # u
        /\ InPrimitive(t) /\ Top(t).fn \in PointQueries \cup {"get_trajectory", "_resolve_body"}
        /\ ~Idle(u) /\ Top(u).pc \in {"acquire", "acquire_grid"}
        /\ Top(u).fn \in {"load_kernel", "unload_all", "delete_cached_files",
                          "get_trajectory"}

\* C3: every step that changes loaded_kernels, generic_loaded,
\* mission_kernels_loaded or segmented_files_loaded is taken by the thread
\* that holds the lock.
MutationsHoldLock ==
    [][\A t \in Threads : (Step(t) /\ tracking' # tracking) => lock_owner = t]_vars

EnsureGenericIdempotent ==
    [][/\ \A t \in Threads :
            (EgCheck(t) /\ generic_loaded) =>
                /\ stack'[t] = Below(t)
                /\ UNCHANGED <<kernel_dir, tracking, pool, logs>>
       /\ (generic_loaded /\ ~generic_loaded') =>
            \E t \in Threads : UaGeneric(t) \/ DcInvGeneric(t)]_vars

\* a call of ensure_generic_kernels has returned having done nothing
EnsureGenericRepeated ==
    \E t \in Threads :
        /\ result[t].op = "ensure_generic_kernels" /\ result[t].status = "ok"
        /\ fetched[t] = <<>> /\ admitted[t] = <<>>
        /\ generic_loaded

\* LSK, PCK, GM, SPK
Rank(f) ==
    CASE f = "naif0012.tls" -> 1
      [] f = "pck00011.tpc" -> 2
      [] f = "gm_de440.tpc" -> 3
      [] f = "de440s.bsp" -> 4
      [] OTHER -> 5

\* C6: what a call of ensure_generic_kernels furnishes, it furnishes in the
\* order naif0012.tls, pck00011.tpc, gm_de440.tpc, de440s.bsp.
GenericAdmissionOrder ==
    \A t \in Threads :
        result[t].op = "ensure_generic_kernels" =>
            \A i, j \in 1..Len(admitted[t]) :
                i < j => Rank(admitted[t][i]) < Rank(admitted[t][j])

\* a call of ensure_generic_kernels has furnished all four files
GenericAllAdmitted ==
    \E t \in Threads :
        /\ result[t].op = "ensure_generic_kernels" /\ result[t].status = "ok"
        /\ Len(admitted[t]) = 4

\* C7: generic_loaded is set only by a call of ensure_generic_kernels for which
\* download_kernel and load_kernel have returned for every generic file; a call
\* that fails sets nothing.
GenericFlagAfterAll ==
    [][/\ (~generic_loaded /\ generic_loaded') =>
            \E t \in Threads :
                /\ EgSet(t)
                /\ GENERIC_KERNELS \subseteq SeqToSet(fetched[t])
                /\ GENERIC_KERNELS \subseteq ensured[t]
       /\ \A t \in Threads :
            (Fails(t) /\ stack[t][1].fn = "ensure_generic_kernels") =>
                /\ generic_loaded' = generic_loaded
                /\ ~(GENERIC_KERNELS \subseteq ensured'[t])]_vars

\* a call of ensure_generic_kernels has failed part way, and the flag is unset
GenericFailedPartWay ==
    \E t \in Threads :
        /\ result[t].op = "ensure_generic_kernels"
        /\ result[t].status \in {"RuntimeError", "OSError", "SpiceError"}
        /\ admitted[t] # <<>>
        /\ ~generic_loaded

\* C8: a mission key enters mission_kernels_loaded only by a call of
\* ensure_mission_kernels for which download_kernel and load_kernel have
\* returned for every file of its map; a call that fails marks nothing; a call
\* for a marked key returns at once with no download_kernel and no furnsh.
EnsureMissionMarksOnSuccess ==
    [][/\ \A M \in MissionKeys :
            (M \notin mission_kernels_loaded /\ M \in mission_kernels_loaded') =>
                \E t \in Threads :
                    /\ EmAdd(t) /\ Top(t).arg = M
                    /\ SeqToSet(MISSION_KERNELS[M]) \subseteq SeqToSet(fetched[t])
                    /\ SeqToSet(MISSION_KERNELS[M]) \subseteq ensured[t]
       /\ \A t \in Threads :
            (Fails(t) /\ stack[t][1].fn = "ensure_mission_kernels") =>
                mission_kernels_loaded' = mission_kernels_loaded
       /\ \A t \in Threads :
            (EmCheck(t) /\ Top(t).arg \in mission_kernels_loaded) =>
                /\ stack'[t] = Below(t)
                /\ UNCHANGED <<kernel_dir, tracking, pool, logs>>]_vars

\* a call of ensure_mission_kernels for a marked mission has returned having
\* done nothing
EnsureMissionRepeated ==
    \E t \in Threads :
        /\ result[t].op = "ensure_mission_kernels" /\ result[t].status = "ok"
        /\ fetched[t] = <<>> /\ admitted[t] = <<>>
        /\ result[t].arg \in mission_kernels_loaded

\* C9: ensure_mission_kernels for a key without a fixed kernel map never
\* succeeds and never marks the key or touches a mission file: once the generic
\* kernels are ensured it raises one KeyError for a segmented mission and
\* another for a mission with no kernels at all.
EnsureMissionKeyErrors ==
    \A t \in Threads :
        (result[t].op = "ensure_mission_kernels"
            /\ result[t].arg \notin DOMAIN MISSION_KERNELS) =>
            /\ result[t].status \in
                 {"running", "RuntimeError", "OSError", "SpiceError",
                  IF result[t].arg \in SEGMENTED_MISSIONS
                  THEN "KeyError: uses segmented kernels"
                  ELSE "KeyError: no SPICE kernels defined"}
            /\ result[t].arg \notin mission_kernels_loaded
            /\ SeqToSet(fetched[t]) \subseteq GENERIC_KERNELS
            /\ SeqToSet(admitted[t]) \subseteq GENERIC_KERNELS

\* both KeyErrors have been raised
BothKeyErrorsRaised ==
    /\ result["t1"].op = "ensure_mission_kernels"
    /\ result["t1"].status = "KeyError: uses segmented kernels"
    /\ result["t2"].op = "ensure_mission_kernels"
    /\ result["t2"].status = "KeyError: no SPICE kernels defined"

\* C10: when ensure_mission_kernels returns, the generic kernels are loaded.
EnsureMissionImpliesGeneric ==
    \A t \in Threads :
        (result[t].op = "ensure_mission_kernels" /\ result[t].status = "ok") =>
            /\ generic_loaded
            /\ GENERIC_KERNELS \subseteq loaded_kernels

\* the files of the manifest segments with coverageStart <= end and
\* coverageStop >= start, for the range of a request a
Overlapping(a) ==
    {manifest[i].file : i \in {j \in 1..Len(manifest) :
        manifest[j].start <= a.time_end /\ manifest[j].stop >= a.time_start}}

\* the segment files among the entries of a log
SegmentsIn(log) == SeqToSet(log) \cap SegmentFiles

\* the step is the return of ensure_segmented_kernels
EsReturns(t) == EsLoop(t) /\ Top(t).todo = <<>>

\* C11: a call of ensure_segmented_kernels that starts with
\* segmented_files_loaded empty and returns leaves it equal to the files of the
\* segments with coverageStart <= end and coverageStop >= start, and a call
\* passes no other segment file to download_kernel or to furnsh.
SegmentSelection ==
    /\ [][\A t \in Threads :
            (EsReturns(t) /\ Top(t).before = {}) =>
                segmented_files_loaded' = Overlapping(Top(t).arg)]_vars
    /\ [](\A t \in Threads :
            result[t].op = "ensure_segmented_kernels" =>
                /\ SegmentsIn(fetched[t]) \subseteq Overlapping(result[t].arg)
                /\ SegmentsIn(admitted[t]) \subseteq Overlapping(result[t].arg))

\* a call has returned having loaded a segment that only touches the edge of
\* the range, and not the other segment
EdgeSegmentSelected ==
    \E t \in Threads :
        /\ result[t].op = "ensure_segmented_kernels" /\ result[t].status = "ok"
        /\ Len(manifest) = 2
        /\ manifest[1].stop = result[t].arg.time_start
        /\ manifest[1].start < manifest[1].stop
        /\ segmented_files_loaded = {manifest[1].file}
        /\ admitted[t] = <<manifest[1].file>>

\* C12: a segment file in segmented_files_loaded is not passed to
\* download_kernel again; a call that returns leaves every overlapping segment
\* in segmented_files_loaded; only unload_all and delete_cached_files take a
\* file out of it; and no segment is furnished twice between evictions.
SegmentsNotRepeated ==
    /\ [][\A t \in Threads :
            /\ (DlCheck(t) /\ stack[t][1].fn = "ensure_segmented_kernels"
                    /\ Top(t).arg \in SegmentFiles) =>
                    Top(t).arg \notin segmented_files_loaded
            /\ EsReturns(t) => Overlapping(Top(t).arg) \subseteq segmented_files_loaded'
            /\ (Steps(t) /\ ~(segmented_files_loaded \subseteq
                                            segmented_files_loaded')) =>
                    UaSegmented(t) \/ DcSegDiscard(t)]_vars
    /\ [](\A f \in SegmentFiles : furnsh_calls[f] <= 1)

\* a call over a range whose segments an earlier call has loaded has returned
\* without a download and without a furnsh
SegmentsSkipped ==
    \E t \in Threads :
        /\ result[t].op = "ensure_segmented_kernels" /\ result[t].status = "ok"
        /\ Cardinality(Overlapping(result[t].arg)) = 2
        /\ fetched[t] = <<>> /\ admitted[t] = <<>>
        /\ segmented_files_loaded = Overlapping(result[t].arg)

\* C13: a call of ensure_segmented_kernels for a range no segment overlaps
\* never returns: once the generic kernels are ensured it raises the coverage
\* ValueError when the manifest has segments and the empty-manifest ValueError
\* when it has none; it passes no segment file to download_kernel or furnsh
\* and leaves segmented_files_loaded as it found it.
NoCoverageErrors ==
    /\ [](\A t \in Threads :
            (result[t].op = "ensure_segmented_kernels"
                /\ result[t].arg.mission_key \in SEGMENTED_MISSIONS
                /\ Overlapping(result[t].arg) = {}) =>
                /\ result[t].status \in
                     {"running", "RuntimeError", "OSError", "SpiceError",
                      IF manifest = <<>>
                      THEN "ValueError: manifest is empty"
                      ELSE "ValueError: no kernel segments cover the range"}
                /\ SegmentsIn(fetched[t]) = {}
                /\ SegmentsIn(admitted[t]) = {})
    /\ [][\A t \in Threads :
            (EsSelect(t) /\ Fails(t)) =>
                /\ segmented_files_loaded' = segmented_files_loaded
                /\ segmented_files_loaded = Top(t).before]_vars

\* the coverage error has been raised for a range outside the manifest's
\* segments, after an earlier call loaded a segment
NoCoverageRaised ==
    \E t \in Threads :
        /\ result[t].op = "ensure_segmented_kernels"
        /\ result[t].status = "ValueError: no kernel segments cover the range"
        /\ segmented_files_loaded # {}

\* C14: when the coverage error is raised, the span it reports (the first
\* segment's start to the last segment's stop) bounds every segment of the
\* manifest: none starts before the reported start or stops after the
\* reported stop.
ReportedSpanCoversManifest ==
    \A t \in Threads :
        (result[t].op = "ensure_segmented_kernels"
            /\ result[t].status = "ValueError: no kernel segments cover the range") =>
            \A i \in 1..Len(manifest) :
                /\ manifest[i].start >= CoverageSpan(manifest).first
                /\ manifest[i].stop <= CoverageSpan(manifest).last

RECURSIVE SumSizes(_, _)
\* the sizes of the files S added up, those of zero being zero-size files
SumSizes(S, zero) ==
    IF S = {} THEN 0
    ELSE LET f == CHOOSE x \in S : TRUE IN
         (IF f \in zero THEN 0 ELSE FileSize[f]) + SumSizes(S \ {f}, zero)

\* the number of per-file errors a result holds for a name
ErrorsFor(errors, name) ==
    Cardinality({i \in 1..Len(errors) : errors[i][1] = name})

\* C15 as stated: when delete_cached_files returns, every name that was on
\* disk is in deleted, every name that was not has one per-file error, freed
\* is the sum of the sizes of the deleted files, and the deleted files are
\* neither on disk nor in loaded_kernels or segmented_files_loaded.
DeletePartialFailure ==
    [][\A t \in Threads :
        DcInvGeneric(t) =>
            LET names == SeqToSet(Top(t).arg)
                deleted == SeqToSet(returned'[t].deleted) IN
            /\ \A n \in names \cap Top(t).before : n \in deleted
            /\ \A n \in names \ Top(t).before :
                    /\ ErrorsFor(returned'[t].errors, n) = 1
                    /\ n \notin deleted
            /\ returned'[t].freed_mb = RoundMb(SumSizes(deleted, Top(t).zero))
            /\ \A f \in deleted :
                    /\ f \notin kernel_dir' \cup empty_files'
                    /\ f \notin loaded_kernels'
                    /\ f \notin segmented_files_loaded']_vars

\* C15, amended: a name that was on disk is in deleted unless its removal
\* failed, and then it has one per-file error and the loop goes on; the rest
\* as stated.
DeletePartialFailureUnlessUnlinkFails ==
    [][\A t \in Threads :
        DcInvGeneric(t) =>
            LET names == SeqToSet(Top(t).arg)
                deleted == SeqToSet(returned'[t].deleted) IN
            /\ \A n \in names \cap Top(t).before :
                    \/ n \in deleted /\ ErrorsFor(returned'[t].errors, n) = 0
                    \/ /\ n \notin deleted
                       /\ ErrorsFor(returned'[t].errors, n) = 1
                       /\ n \in kernel_dir' \cup empty_files'
            /\ \A n \in names \ Top(t).before :
                    /\ ErrorsFor(returned'[t].errors, n) = 1
                    /\ n \notin deleted
            /\ returned'[t].freed_mb = RoundMb(SumSizes(deleted, Top(t).zero))
            /\ \A f \in deleted :
                    /\ f \notin kernel_dir' \cup empty_files'
                    /\ f \notin loaded_kernels'
                    /\ f \notin segmented_files_loaded']_vars

\* delete_cached_files has returned from a list whose first name was absent
\* and whose second was present and loaded: the first is an error, the second
\* is deleted
DeletedAfterAbsentName ==
    \E t \in Threads :
        /\ result[t].op = "delete_cached_files" /\ result[t].status = "ok"
        /\ result[t].arg = <<"160707AP_helios1_81272_86074.bsp", "de440s.bsp">>
        /\ returned[t].deleted = <<"de440s.bsp">>
        /\ returned[t].errors =
                <<<<"160707AP_helios1_81272_86074.bsp", "not found in cache">>>>
        /\ returned[t].freed_mb = 1
        /\ furnsh_calls["naif0012.tls"] = 1

\* the files a thread's call has passed to download_kernel that are on disk
\* and loaded
Restored(t) == SeqToSet(fetched[t]) \cap kernel_dir \cap loaded_kernels

\* C16: when delete_cached_files returns, the mission of every deleted file of
\* a fixed kernel map is out of mission_kernels_loaded, and generic_loaded is
\* false if a generic file was deleted; ensure_mission_kernels(M) with M not in
\* mission_kernels_loaded and ensure_generic_kernels with generic_loaded false
\* do not return at their test, and they set their flag only with every file
\* of theirs passed to download_kernel, on disk and loaded.
DeleteInvalidatesFlags ==
    [][\A t \in Threads :
        /\ DcInvGeneric(t) =>
                \A f \in SeqToSet(returned'[t].deleted) :
                    /\ f \in MissionFiles => FileToMission(f) \notin mission_kernels_loaded'
                    /\ f \in GENERIC_KERNELS => ~generic_loaded'
        /\ (EmCheck(t) /\ Top(t).arg \notin mission_kernels_loaded) =>
                Len(stack'[t]) > Len(stack[t])
        /\ (EgCheck(t) /\ ~generic_loaded) => Len(stack'[t]) > Len(stack[t])
        /\ EmAdd(t) => SeqToSet(MISSION_KERNELS[Top(t).arg]) \subseteq Restored(t)
        /\ EgSet(t) => GENERIC_KERNELS \subseteq Restored(t)]_vars

\* delete_cached_files has returned having deleted a generic file and a file
\* of HELIOS_1 after ensure_mission_kernels("HELIOS_1") had loaded the
\* mission's last file: both flags are reset
FlagsResetByDelete ==
    \E t \in Threads :
        /\ result[t].op = "delete_cached_files" /\ result[t].status = "ok"
        /\ returned[t].deleted = <<"pck00011.tpc", "100528R_helios1_74345_81272.bsp">>
        /\ furnsh_calls["160707AP_helios1_81272_86074.bsp"] = 1
        /\ "HELIOS_1" \notin mission_kernels_loaded
        /\ ~generic_loaded

\* the step is the return of purge_cache
PcReturns(t) == Returns(t) /\ PcLoop(t) /\ Top(t).todo = <<>>

NotTmp(S) == {n \in S : ~endswith_tmp(n)}

\* C18: no enumeration treats a name ending in .tmp as a cached file:
\* get_cache_size_bytes returns the size of the other names it found,
\* get_cache_info counts and lists only those, delete_mission_cache passes
\* none to delete_cached_files, and no step of delete_mission_cache or
\* purge_cache removes a temporary file or counts one as deleted.
TmpNeverEnumerated ==
    [][\A t \in Threads :
        /\ (Returns(t) /\ GcsTotal(t)) =>
                returned'[t] = TotalSize(NotTmp(Top(t).seen))
        /\ (Returns(t) /\ GciReport(t)) =>
                /\ returned'[t].file_count = Cardinality(NotTmp(Top(t).seen))
                /\ returned'[t].total_size_mb = RoundMb(TotalSize(NotTmp(Top(t).seen)))
                /\ \A m \in DOMAIN returned'[t].missions :
                        \A n \in SeqToSet(returned'[t].missions[m].files) :
                            ~endswith_tmp(n)
        /\ (At(t, "delete_mission_cache", "list") /\ Steps(t) /\ ~Returns(t)) =>
                /\ stack'[t][1].fn = "delete_cached_files"
                /\ \A n \in SeqToSet(stack'[t][1].arg) : ~endswith_tmp(n)
        /\ (Steps(t) /\ result[t].op \in {"purge_cache", "delete_mission_cache"}) =>
                tmp_dir \subseteq tmp_dir'
        /\ PcReturns(t) =>
                /\ returned'[t].deleted_count = Cardinality(NotTmp(Top(t).done))
                /\ returned'[t].deleted_count <= Cardinality(NotTmp(Top(t).seen))]_vars

\* purge_cache has listed the directory while another thread's download was
\* writing its temporary file, and has removed every cached file: the
\* temporary file is still there
PurgedDuringDownload ==
    \E t \in Threads :
        /\ At(t, "purge_cache", "loop")
        /\ Top(t).todo = <<>>
        /\ Top(t).seen \cap TmpNames # {}
        /\ Top(t).seen \cap TmpNames \subseteq tmp_dir
        /\ Top(t).deleted = Cardinality(NotTmp(Top(t).seen))
        /\ Top(t).deleted >= 5

\* C19: download_kernel returns at its test, with no request made and the
\* directory untouched, exactly when a file of that name with size greater
\* than zero is in the cache directory; otherwise, the file missing or of
\* zero size, it goes on to the request.
DownloadSkipsCached ==
    [][\A t \in Threads :
        DlCheck(t) =>
            LET f == Top(t).arg IN
            IF OnDisk(f) /\ StatSize(f) > 0
            THEN /\ Len(stack'[t]) < Len(stack[t])
                 /\ result'[t].status \in {"running", "ok"}
                 /\ <<kernel_dir, empty_files, tmp_dir>>' = <<kernel_dir, empty_files, tmp_dir>>
            ELSE At(t, "download_kernel", "fetch")']_vars

\* the first call of a session, download_kernel for the zero-size file, has
\* returned: the file was fetched
ZeroSizeFetched ==
    \E t \in Threads :
        /\ result[t].op = "download_kernel" /\ result[t].status = "ok"
        /\ result[t].arg = "pck00011.tpc"
        /\ "pck00011.tpc" \in kernel_dir
        /\ ops = MaxCacheSeqOps - 1

\* C20: a step of download_kernel that fails, at the request or at the write
\* or rename, ends the call with the error (no further request follows),
\* leaves no temporary file of that name, puts no file at the final path and
\* leaves the tracking state and the kernel pool as they were.
DownloadFailureCleansUp ==
    [][\A t \in Threads :
        ((DlFetch(t) \/ DlRename(t)) /\ Fails(t)) =>
            /\ result'[t].status \in {"RuntimeError", "OSError"}
            /\ stack'[t] = <<>>
            /\ with_suffix_tmp[Top(t).arg] \notin tmp_dir'
            /\ kernel_dir' = kernel_dir /\ empty_files' = empty_files
            /\ tracking' = tracking
            /\ pool' = pool]_vars

\* download_kernel for the missing file has failed after its temporary file
\* was written: neither the temporary file nor the file is there
DownloadFailedAtWrite ==
    \E t \in Threads :
        /\ result[t].op = "download_kernel" /\ result[t].status = "OSError"
        /\ result[t].arg = "gm_de440.tpc"
        /\ "gm_de440.tpc" \notin Iterdir
        /\ tmp_dir = {}

\* C21: under every interleaving of download_kernel calls (two threads
\* downloading the same file name among them) with load_kernel and the
\* cached-file check, a file at its final path holds its complete content, and
\* no download in progress writes into a file at a final path: bytes in
\* progress are under the temporary name only.
FinalPathsComplete ==
    /\ \A f \in Files : f \in kernel_dir \cup empty_files => chunks[f] = AllChunks(f)
    /\ \A t \in Threads : fd[t].path \notin Files

\* C22: when two threads download the same uncached file at once and the
\* request succeeds for both (and no open or write fails), both calls return
\* the final path; and however often both then call load_kernel, the file is
\* admitted once.
BothDownloadsReturn ==
    /\ (\A t \in Threads :
            /\ result[t].op = "download_kernel"
            /\ result[t].status \notin {"none", "running", "RuntimeError", "OSError"})
       => \A t \in Threads : result[t].status = "ok" /\ result[t].arg \in kernel_dir
    /\ \A f \in ContendedInputs : pool[f] <= 1

\* the second half alone: load_kernel admits the contended file at most once
ContendedAdmittedOnce == \A f \in ContendedInputs : furnsh_calls[f] <= 1

\* C23: a thread inside download_kernel (at its cached check, its request, its
\* open, a write or the rename) does not hold the lock, whichever entry point
\* the download was reached from: ensure_generic_kernels,
\* ensure_mission_kernels, ensure_segmented_kernels, _resolve_body,
\* get_position, get_state or get_trajectory.
DownloadsUnlocked ==
    \A t \in Threads : InFn(t, "download_kernel") => lock_owner # t

\* the second call of a session, get_trajectory, is writing a chunk of the
\* mission kernel, the first call having loaded the generic kernels
WritingUnderTrajectory ==
    \E t \in Threads :
        /\ At(t, "download_kernel", "write")
        /\ stack[t][1].fn = "get_trajectory"
        /\ Top(t).arg \in MissionFiles
        /\ loaded_kernels # {}

\* C24: whatever the downloader's download_kernel does, were it never to
\* return, a load or a query the reader has started for kernels that are
\* cached and loaded comes to its end under fair scheduling: it gets the lock
\* and completes.
ReaderCompletes ==
    (result[Reader].status = "running") ~> (result[Reader].status # "running")

\* the reader's get_position has returned while the downloader is at a write
\* of its download
ReaderDoneDuringDownload ==
    /\ At(Downloader, "download_kernel", "write")
    /\ result[Reader].op = "get_position"
    /\ result[Reader].arg.target = "HELIOS_1"
    /\ result[Reader].status = "ok"

\* the frames a step of t's has put on top of its stack
Pushed(t) == SubSeq(stack'[t], Len(stack[t]) + 1, Len(stack'[t]))

\* t is at the ensure step of a query
AtQueryEnsure(t) ==
    ~Idle(t) /\ Top(t).fn \in PointQueries \cup {"get_trajectory"} /\ Top(t).pc = "ensure"

\* the calls among these that are fn for this mission key
CallsFor(calls, fn, key) ==
    {i \in 1..Len(calls) :
        /\ calls[i].fn = fn
        /\ IF fn = "ensure_segmented_kernels" THEN calls[i].arg.mission_key = key
           ELSE calls[i].arg = key}

\* C25: the ensure step of a query dispatches by mission kind: for a segmented
\* key (the query has its time range) it calls ensure_segmented_kernels for
\* that key once; for a fixed-kernel key it calls ensure_mission_kernels(key)
\* and not ensure_segmented_kernels; for a key with neither it calls nothing
\* beyond ensure_generic_kernels.
EnsureDispatchesByKind ==
    [][\A t \in Threads :
        (AtQueryEnsure(t) /\ Steps(t)) =>
            LET q == Top(t).arg
                calls == Pushed(t)
            IN  /\ \E i \in 1..Len(calls) : calls[i].fn = "ensure_generic_kernels"
                /\ \A key \in {q.target, q.observer} :
                    LET segmented == CallsFor(calls, "ensure_segmented_kernels", key)
                        mission == CallsFor(calls, "ensure_mission_kernels", key)
                    IN  CASE key \in SEGMENTED_MISSIONS ->
                                Cardinality(segmented) = 1 /\ mission = {}
                          [] key \in DOMAIN MISSION_KERNELS ->
                                Cardinality(mission) = 1 /\ segmented = {}
                          [] OTHER -> mission = {} /\ segmented = {}]_vars

\* C26: the ensure step for a segmented key, given no time range, fails with
\* the error that a time range is required, and calls neither
\* ensure_segmented_kernels nor ensure_mission_kernels.
SegmentedNeedsTimeRange ==
    [][\A t \in Threads :
        (At(t, "_ensure_kernels", "ensure") /\ Steps(t)
            /\ Top(t).arg.target \in SEGMENTED_MISSIONS) =>
                /\ result'[t].status = "ValueError"
                /\ Idle(t)']_vars

\* a call of resolve_mission has ended
Resolving(t) == result[t].op = "resolve_mission" /\ result[t].status # "running"

\* the keys whose text is this, and whose text without underscores is this
KeysSpelled(text) == {k \in DOMAIN MISSION_NAIF_IDS : KeyText[k] = text}
KeysCompact(text) ==
    {k \in DOMAIN MISSION_NAIF_IDS : WithoutUnderscores(KeyText[k]) = text}

\* C27: resolve_mission(name) is case-insensitive and takes hyphens for
\* underscores; with the name stripped, in upper case and its hyphens replaced,
\* it returns the key of that spelling, else the key the alias table gives,
\* else a key equal to it up to underscores, in this order; the pair returned
\* is (MISSION_NAIF_IDS[key], key); when nothing matches it raises KeyError
\* whose message lists exactly the keys with a negative id; and it leaves the
\* cache directory, the tracking state, the pool and the lock as they were.
ResolveMissionContract ==
    \A t \in Threads :
        Resolving(t) =>
            LET name == result[t].arg
                r == returned[t]
                found == "key" \in DOMAIN r
                key == HyphensToUnderscores(Upper(Strip(name)))
            IN  /\ r = resolve_mission(Upper(name))
                /\ r = resolve_mission(HyphensToUnderscores(name))
                /\ found <=> result[t].status = "ok"
                /\ found => r.naif_id = MISSION_NAIF_IDS[r.key]
                /\ CASE KeysSpelled(key) # {} -> found /\ r.key \in KeysSpelled(key)
                     [] key \in DOMAIN Aliases -> found /\ r.key = Aliases[key]
                     [] KeysCompact(WithoutUnderscores(key)) # {} ->
                            found /\ r.key \in KeysCompact(WithoutUnderscores(key))
                     [] OTHER ->
                            /\ result[t].status = "KeyError"
                            /\ Len(r.supported) =
                                 Cardinality({k \in DOMAIN MISSION_NAIF_IDS : MISSION_NAIF_IDS[k] < 0})
                            /\ SeqToSet(r.supported) =
                                 {k \in DOMAIN MISSION_NAIF_IDS : MISSION_NAIF_IDS[k] < 0}
                /\ Iterdir = {} /\ tracking = <<{}, FALSE, {}, {}>>
                /\ Furnished = {} /\ lock_owner = NoThread

\* " mMs" has been resolved through the alias table, "a-ce" would be through
\* the match without underscores
AliasResolved ==
    /\ Resolving("t1")
    /\ result["t1"].arg = <<" ", "m", "M", "s">>
    /\ returned["t1"] = [naif_id |-> -189, key |-> "MMS1"]
    /\ resolve_mission(<<"a", "-", "c", "e">>) = [naif_id |-> -92, key |-> "ACE"]

\* C28: _resolve_body stops at the first strategy that succeeds.  A name the
\* registry (or the table of ids) resolves is returned in one step that makes
\* no download, no load and takes no lock; only for a name both fail on does
\* it call ensure_generic_kernels, and only then, holding the lock, ask the
\* library; it ends with KeyError when the library does not know the name
\* either.
ResolveBodyInOrder ==
    [][\A t \in Threads :
        (InFn(t, "_resolve_body") /\ Steps(t)) =>
            LET name == Top(t).arg IN
            CASE Top(t).pc = "start" ->
                    IF InRegistry(name)
                    THEN /\ Len(stack'[t]) < Len(stack[t])
                         /\ result'[t].status \in {"running", "ok"}
                         /\ UNCHANGED <<kernel_dir, scraps, tracking, pool, lock_owner,
                                        lock_depth, furnsh_calls, logs>>
                    ELSE /\ Pushed(t) = <<Frame("ensure_generic_kernels", "check", "")>>
                         /\ UNCHANGED <<lock_owner, lock_depth>>
              [] Top(t).pc = "acquire" ->
                    /\ ~InRegistry(name)
                    /\ lock_owner' = t
                    /\ At(t, "_resolve_body", "bodn2c")'
              [] Top(t).pc = "bodn2c" ->
                    /\ ~InRegistry(name)
                    /\ lock_owner = t
                    /\ lock_owner' # t
                    /\ IF name \in BuiltinBodies
                       THEN result'[t].status \in {"running", "ok"}
                       ELSE result'[t].status = "KeyError: cannot resolve body name"]_vars

\* _resolve_body has failed with KeyError for a name no strategy knows, after
\* ensure_generic_kernels loaded the generic kernels
BodyNotFound ==
    \E t \in Threads :
        /\ result[t].op = "_resolve_body"
        /\ result[t].arg = "VULCAN"
        /\ result[t].status = "KeyError: cannot resolve body name"
        /\ generic_loaded
        /\ lock_owner = NoThread

\* C29: check_remote_kernels for a fixed-kernel mission does not raise; it
\* returns one entry per parent directory of the configured URLs, in their
\* order and each directory once, whether or not an earlier directory failed;
\* an entry whose fetch or parsing failed has the error and an empty file
\* list; and no step of it changes the cache directory, the tracking state or
\* the pool.
RemoteFailuresIsolated ==
    [][\A t \in Threads :
        (InFn(t, "check_remote_kernels") /\ Steps(t)) =>
            LET M == Top(t).arg IN
            /\ UNCHANGED <<kernel_dir, scraps, tracking, pool, lock_owner>>
            /\ (M \in DOMAIN KernelUrls /\ M \notin SEGMENTED_MISSIONS) => ~Fails(t)
            /\ Returns(t) =>
                LET dirs == returned'[t].directories
                    parents == {Parent(KernelUrls[M][i].url) : i \in 1..Len(KernelUrls[M])}
                IN  /\ Len(dirs) = Cardinality(parents)
                    /\ {dirs[i].url : i \in 1..Len(dirs)} = parents
                    /\ \A i \in 1..Len(dirs) :
                            dirs[i].error # None => dirs[i].all_bsp_files = <<>>]_vars

\* the first directory's fetch failed and the second directory's listing is
\* in the result
SecondDirectoryListed ==
    \E t \in Threads :
        /\ result[t].op = "check_remote_kernels" /\ result[t].status = "ok"
        /\ result[t].arg = "TWO_DIRS"
        /\ Len(returned[t].directories) = 2
        /\ returned[t].directories[1].error # None
        /\ returned[t].directories[2].error = None
        /\ returned[t].directories[2].all_bsp_files = <<"a.bsp", "new.BSP">>
        /\ kernel_dir = FixedFiles /\ loaded_kernels = FixedFiles

\* the names on disk that are not temporary and that the file map gives to M
CachedOf(M) == {f \in Iterdir : ~endswith_tmp(f) /\ FileToMission(f) = M}

\* C30: every step of delete_mission_cache(M) removes from the directory,
\* from the loaded set, from the pool and from the segment tracking only
\* on-disk non-temporary files the file map gives to M, and resets only M's
\* flag; it returns at its listing exactly when no file matches, with an empty
\* deletion and the message and every variable of the manager unchanged;
\* otherwise the files it reports deleted are files of M.
MissionCacheDeletesOwn ==
    [][\A t \in Threads :
        (Steps(t) /\ result[t].op = "delete_mission_cache") =>
            LET M == result[t].arg IN
            /\ Iterdir \ Iterdir' \subseteq CachedOf(M)
            /\ loaded_kernels \ loaded_kernels' \subseteq CachedOf(M)
            /\ segmented_files_loaded \ segmented_files_loaded' \subseteq CachedOf(M)
            /\ \A f \in Files \ CachedOf(M) : pool'[f] = pool[f]
            /\ mission_kernels_loaded \ mission_kernels_loaded' \subseteq {M}
            /\ generic_loaded' # generic_loaded => M = "GENERIC"
            /\ At(t, "delete_mission_cache", "list") =>
                /\ Returns(t) <=> CachedOf(M) = {}
                /\ Returns(t) =>
                    /\ returned'[t].deleted = <<>>
                    /\ returned'[t].freed_mb = 0
                    /\ "message" \in DOMAIN returned'[t]
                    /\ UNCHANGED <<kernel_dir, scraps, tracking, pool, lock_owner>>
            /\ (Returns(t) /\ At(t, "delete_cached_files", "inv_generic")) =>
                    \A f \in SeqToSet(returned'[t].deleted) :
                        /\ f \in Top(t).before
                        /\ ~endswith_tmp(f)
                        /\ FileToMission(f) = M]_vars

\* delete_mission_cache("HELIOS_1") has deleted both Helios kernels; the
\* generic kernels, the loaded segment file the manifest does not name and
\* the temporary file are on disk, and the first two are still loaded
OtherFilesKept ==
    \E t \in Threads :
        /\ result[t].op = "delete_mission_cache" /\ result[t].status = "ok"
        /\ result[t].arg = "HELIOS_1"
        /\ SeqToSet(returned[t].deleted) = SeqToSet(MISSION_KERNELS["HELIOS_1"])
        /\ Iterdir = (Files \ SeqToSet(MISSION_KERNELS["HELIOS_1"])) \cup {"de440s.tmp"}
        /\ loaded_kernels = GENERIC_KERNELS \cup {"seg_b.bsp"}
        /\ FileToMission("seg_b.bsp") = "UNKNOWN"
        /\ generic_loaded

\* the group a cached file belongs to: its segmented mission, the mission
\* whose kernel map names it, GENERIC for a generic kernel name, or UNKNOWN
GroupFor(f) ==
    IF f \in ManifestFiles THEN CHOOSE m \in SEGMENTED_MISSIONS : TRUE
    ELSE IF f \in MissionFiles
    THEN CHOOSE m \in DOMAIN MISSION_KERNELS : f \in SeqToSet(MISSION_KERNELS[m])
    ELSE IF f \in GENERIC_KERNELS THEN "GENERIC"
    ELSE "UNKNOWN"

RECURSIVE SumOfCounts(_)
\* the file counts of the groups added up
SumOfCounts(missions) ==
    IF DOMAIN missions = {} THEN 0
    ELSE LET m == CHOOSE x \in DOMAIN missions : TRUE
         IN  missions[m].file_count
                + SumOfCounts([x \in DOMAIN missions \ {m} |-> missions[x]])

\* C31: when get_cache_info returns, every non-temporary file it listed is in
\* the file list of exactly one group, which is the file's group; no group
\* holds any other name; each group's file_count is the length of its list,
\* the counts add up to file_count, which is the number of those files; and
\* total_size_mb is the rounded sum of their sizes.
CacheInfoPartitions ==
    [][\A t \in Threads :
        (Returns(t) /\ At(t, "get_cache_info", "report")) =>
            LET r == returned'[t]
                listed == NotTmp(Top(t).seen)
            IN  /\ \A f \in listed :
                    /\ GroupFor(f) \in DOMAIN r.missions
                    /\ \A m \in DOMAIN r.missions :
                            f \in SeqToSet(r.missions[m].files) <=> m = GroupFor(f)
                /\ \A m \in DOMAIN r.missions :
                    /\ SeqToSet(r.missions[m].files) \subseteq listed
                    /\ r.missions[m].file_count = Len(r.missions[m].files)
                    /\ r.missions[m].file_count =
                            Cardinality(SeqToSet(r.missions[m].files))
                /\ SumOfCounts(r.missions) = r.file_count
                /\ r.file_count = Cardinality(listed)
                /\ r.total_size_mb = RoundMb(TotalSize(listed))]_vars

\* get_cache_info has returned the four kinds of group for a directory that
\* also holds a temporary file: eight files, one of them unknown
CacheInfoFourGroups ==
    \E t \in Threads :
        /\ result[t].op = "get_cache_info" /\ result[t].status = "ok"
        /\ DOMAIN returned[t].missions = {"GENERIC", "HELIOS_1", "CASSINI", "UNKNOWN"}
        /\ returned[t].missions["UNKNOWN"].files = <<"seg_b.bsp">>
        /\ returned[t].missions["GENERIC"].file_count = 4
        /\ returned[t].file_count = 8
        /\ tmp_dir # {}

\* C32: for a span S and a step of s > 0 seconds the grid has
\* max(1, floor(S / s) + 1) points when that is at most 100,000 and keeps its
\* step; otherwise it has exactly 100,001 points, the step is S / 100,000, and
\* the grid runs from the start to the end.
GridCapped ==
    [][\A t \in Threads :
        (Returns(t) /\ At(t, "get_trajectory", "n_steps")) =>
            LET S == Top(t).arg.span
                step == Top(t).arg.step
                s == step.value * (CASE step.unit = "d" -> 86400 [] step.unit = "h" -> 3600
                                     [] step.unit = "m" -> 60 [] OTHER -> 1)
                floor == S \div s
                naive == IF floor + 1 >= 1 THEN floor + 1 ELSE 1
                r == returned'[t]
            IN  IF naive <= 100000
                THEN r.n_steps = naive /\ r.step_s = <<s, 1>>
                ELSE /\ r.n_steps = 100001
                     /\ r.step_s = <<S, 100000>>
                     /\ r.et_times = [first |-> 0, last |-> S]]_vars

\* a grid that would have had 200,000 points has 100,001
GridCoarsened ==
    \E t \in Threads :
        /\ result[t].op = "get_trajectory" /\ result[t].status = "ok"
        /\ "span" \in DOMAIN result[t].arg /\ "step" \in DOMAIN result[t].arg
        /\ result[t].arg.span = 199999 /\ result[t].arg.step = [value |-> 1, unit |-> "s"]
        /\ returned[t].n_steps = 100001
        /\ returned[t].et_times.last = 199999

\* C33: no call of a tool ends with an exception leaving the tool: every tool
\* call that is over has returned a dict whose status is success or error,
\* and an error dict has a message.
ToolsReturnStatus ==
    \A t \in Threads :
        result[t].op \in ToolNames =>
            /\ result[t].status # "raised"
            /\ result[t].status = "returned" =>
                /\ returned[t].status \in {"success", "error"}
                /\ returned[t].status = "error" => "message" \in DOMAIN returned[t]

\* a thread is in the grid loop of get_trajectory, at a grid point's
\* evaluation or its time conversion
InGrid(t) ==
    /\ InFn(t, "get_trajectory")
    /\ Top(t).pc \in {"spkpos", "spkezr", "et2utc"}

\* a thread is at a primitive of the shared context
AtPrimitive(t) ==
    /\ ~Idle(t)
    /\ Top(t).pc \in {"furnsh", "kclear", "unload", "bodn2c", "utc2et", "utc2et_start",
                      "utc2et_end", "spkpos", "spkezr", "et2utc", "pxform"}

\* C34: from the first grid point's evaluation to the last one's the thread
\* of get_trajectory holds the lock without a gap, and while it is in the
\* grid loop no step of another thread changes the pool or the loaded set or
\* is a step of a primitive of the shared context.
GridInOneSection ==
    [][\A t \in Threads :
        InGrid(t) =>
            /\ lock_owner = t
            /\ (~Idle(t))' /\ InGrid(t)' => lock_owner' = t /\ lock_depth' = lock_depth
            /\ \A u \in Threads \ {t} :
                    Steps(u) => /\ UNCHANGED <<pool, loaded_kernels>>
                                /\ ~AtPrimitive(u)]_vars

\* a trajectory is at its second grid point while the other thread waits at
\* the lock of unload_all
SecondPointWhileWaiting ==
    \E t \in Threads : \E u \in Threads \ {t} :
        /\ InGrid(t) /\ Top(t).i = 2 /\ Top(t).n_steps = 2
        /\ At(u, "unload_all", "acquire")
        /\ lock_owner = t

\* a thread is at a statement that takes the lock
Requests(t) ==
    /\ ~Idle(t)
    /\ Top(t).pc \in {"acquire", "acquire_grid", "acquire_pxform"}

\* C35: a thread whose call has ended, by a return or by an exception, does
\* not own the lock, and the lock has an owner exactly while its count is
\* positive; a step that ends a call of the owner's leaves the lock free,
\* also when the owner had taken it twice; a thread leaves a statement that
\* takes the lock only when the lock is free or its own; and under fair
\* scheduling a thread that is at such a statement leaves it.
LockAlwaysReleased ==
    /\ [](\A t \in Threads : Idle(t) => lock_owner # t)
    /\ []((lock_owner = NoThread) <=> (lock_depth = 0))
    /\ [][\A t \in Threads :
            /\ lock_owner = t /\ Idle(t)' => lock_owner' = NoThread /\ lock_depth' = 0
            /\ Requests(t) /\ Steps(t) => CanAcquire(t)]_vars
    /\ \A t \in Threads : Requests(t) ~> (lock_owner = t \/ ~Requests(t))

\* a thread has taken the lock after the other thread's call ended by an
\* exception of spice.furnsh inside load_kernel, itself inside the caller's own
\* with block
AcquiredAfterNestedRaise ==
    \E t \in Threads : \E u \in Threads \ {t} :
        /\ result[u].op = "with km.lock"
        /\ result[u].status = "SpiceError"
        /\ lock_owner = t
        /\ At(t, "load_kernel", "furnsh")

\* a set flag has its files in the loaded set
FlagsSound ==
    /\ generic_loaded => \A f \in GENERIC_KERNELS : Resolve(f) \in loaded_kernels
    /\ \A M \in mission_kernels_loaded :
            \A f \in SeqToSet(MISSION_KERNELS[M]) : Resolve(f) \in loaded_kernels
    /\ \A f \in segmented_files_loaded : Resolve(f) \in loaded_kernels

\* C36: in a session of one thread, after every call of
\* ensure_generic_kernels, ensure_mission_kernels, ensure_segmented_kernels,
\* load_kernel, unload_all, delete_cached_files, delete_mission_cache and
\* purge_cache, whether it returned or raised, every set flag has its files
\* in the loaded set.
FlagsImplyLoaded == (\A t \in Threads : Idle(t)) => FlagsSound

\* C37: when a call of ensure_generic_kernels, ensure_mission_kernels or
\* ensure_segmented_kernels in one thread and a call of unload_all or
\* delete_cached_files in the other have both returned, however their steps
\* were interleaved, every set flag has its files in the loaded set.
FlagsImplyLoadedAfterRace ==
    (/\ result[Ensurer].status = "ok"
     /\ result[Evictor].status = "ok") => FlagsSound

\* the paths admitted in the kernel pool
Admitted == {f \in DOMAIN pool : pool[f] > 0}

\* loadedKernels equals the set of admitted paths whenever the lock is free
TrackingMirrorsContext == lock_owner = NoThread => loaded_kernels = Admitted

\* t's step is the unload of f inside delete_cached_files, and it has failed
UnloadFails(t, f) ==
    /\ At(t, "delete_cached_files", "unload")
    /\ Steps(t)
    /\ Head(Top(t).todo) = f
    /\ pool'[f] = pool[f]

\* C38: whenever the lock is free every path of loadedKernels is admitted in
\* the kernel pool; and a path comes to be admitted without being in
\* loadedKernels only by the step of delete_cached_files whose spice.unload
\* of that path fails and is swallowed.
MirrorUnlessUnloadFails ==
    /\ [](lock_owner = NoThread => loaded_kernels \subseteq Admitted)
    /\ [][\A f \in Admitted' \ loaded_kernels' :
            \/ f \in Admitted \ loaded_kernels
            \/ \E t \in Threads : UnloadFails(t, f)]_vars

\* delete_cached_files has returned after a swallowed failure of its unload:
\* a path is admitted and is not in loadedKernels
UnloadFailureSwallowed ==
    /\ lock_owner = NoThread
    /\ \E t \in Threads :
        /\ result[t].op = "delete_cached_files"
        /\ result[t].status = "ok"
    /\ Admitted \ loaded_kernels # {}

\* the kernel files of the cache directory
Cached == kernel_dir \cup empty_files

\* the files the eviction call of t has deleted so far
DeletedBy(t) ==
    IF Top(t).fn = "purge_cache" THEN Top(t).done ELSE SeqToSet(Top(t).done)

\* C39: a step that unlinks a kernel file of the cache directory is taken
\* while the file's path is not in loadedKernels; and when purge_cache or
\* delete_cached_files returns, no path in loadedKernels is that of a file the
\* call has deleted and that is gone from the directory.
NoLoadedHandleRemoved ==
    [][/\ \A f \in Cached \ Cached' : Resolve(f) \notin loaded_kernels
       /\ \A t \in Threads :
            (Returns(t) /\ Top(t).fn \in {"purge_cache", "delete_cached_files"}) =>
                \A f \in DeletedBy(t) \ Cached' : Resolve(f) \notin loaded_kernels']_vars

\* C40: while get_position, get_state or get_trajectory is at a primitive of
\* its evaluation, under the lock, every path that load_kernel returned for
\* in the ensure step of the same call is in loadedKernels.
QueryEvaluatesEnsured ==
    \A t \in Threads :
        (/\ ~Idle(t)
         /\ Top(t).fn \in PointQueries \cup {"get_trajectory"}
         /\ AtPrimitive(t)) =>
            /\ lock_owner = t
            /\ ensured[t] \subseteq loaded_kernels

====
